---- MODULE Spec2Model ----
(***************************************************************************)
(* A model of the Ankoku bytecode VM (src/src/vm), its open-addressed      *)
(* hash table (src/src/vm/table.rs), its mark-and-sweep collector and the  *)
(* single-pass compiler (src/src/compiler/mod.rs).                         *)
(*                                                                         *)
(* Two specifications share the module:                                    *)
(*   SpecTable  a stand-alone HashTable driven through set/get/delete      *)
(*   Spec       a VM: Compiler::compile, VM::interpret, the instruction    *)
(*              loop of VM::run and VM::collect                            *)
(***************************************************************************)
EXTENDS Integers, Sequences, FiniteSets, TLC

(***************************************************************************)
(* Values (src/src/vm/value.rs).  A Value is a tagged record; the payload  *)
(* v is always an integer so that any two values can be compared:          *)
(* Bool carries 0/1, Null carries 0, Real its number, Obj a heap address.  *)
(***************************************************************************)
Null == [t |-> "Null", v |-> 0]
Bool(b) == [t |-> "Bool", v |-> IF b THEN 1 ELSE 0]
Real(n) == [t |-> "Real", v |-> n]
ObjRef(a) == [t |-> "Obj", v |-> a]

\* impl PartialEq for Value: payload equality for Bool, Real and Obj,
\* discriminant equality otherwise.
Value_eq(a, b) ==
    IF a.t = b.t /\ a.t \in {"Bool", "Real", "Obj"} THEN a.v = b.v ELSE a.t = b.t

(***************************************************************************)
(* Strings (src/src/vm/obj.rs).  An AnkokuString is its bytes plus the     *)
(* hash computed from the bytes when it is built.  The 64-bit FxHash       *)
(* values are represented by small numbers that keep what the table reads  *)
(* of them: which strings hash alike, and the residues modulo the table    *)
(* capacities.  "b" and "x" are two different byte strings with one hash;  *)
(* "a" and "b" share a home slot at capacity 8, "c" and "d" share the last *)
(* slot so that their probe chain wraps around into that of "a" and "b".   *)
(***************************************************************************)
hash_bytes(bytes) ==
    CASE bytes = "a" -> 1
      [] bytes = "b" -> 9
      [] bytes = "c" -> 15
      [] bytes = "d" -> 7
      [] bytes = "x" -> 9
      [] bytes = "o" -> 4
      [] bytes = "i" -> 12
      [] bytes = "k1" -> 2
      [] bytes = "k2" -> 10
      [] bytes = "k3" -> 3
      [] bytes = "k4" -> 4
      [] bytes = "k5" -> 5
      [] bytes = "k6" -> 6
      [] bytes = "k7" -> 0
      [] OTHER -> 5

AnkokuString_new(bytes) == [bytes |-> bytes, hash |-> hash_bytes(bytes)]

\* impl PartialEq for AnkokuString: the hashes alone are compared.
AnkokuString_eq(s1, s2) == s1.hash = s2.hash

(***************************************************************************)
(* HashTable (src/src/vm/table.rs).  entries is a sequence of Entry        *)
(* records, slot i of the code being entries[i + 1].  key: Option is       *)
(* modelled by NoKey for None.                                             *)
(***************************************************************************)
NoKey == [bytes |-> "", hash |-> -1]
EmptyEntry == [key |-> NoKey, value |-> Null]
TombstoneEntry == [key |-> NoKey, value |-> Bool(TRUE)]

HashTable_new == [entries |-> << >>, count |-> 0]

\* TABLE_MAX_LOAD = 0.75 as the ratio 3 / 4
TABLE_MAX_LOAD_NUM == 3
TABLE_MAX_LOAD_DEN == 4
MIN_CAPACITY == 8

\* find_entry does not return: the probe went once around the table and
\* met neither an empty slot nor the key, so the loop runs forever.
Diverges == -1

\* The loop of find_entry from slot index on, with the first tombstone seen
\* so far (-1 for None); steps counts the slots already visited.
RECURSIVE find_entry_loop(_, _, _, _, _)
find_entry_loop(entries, key, index, tombstone, steps) ==
    IF steps >= Len(entries) THEN Diverges
    ELSE LET entry == entries[index + 1]
             next == (index + 1) % Len(entries)
         IN  IF entry.key = NoKey
             THEN IF Value_eq(entry.value, Null)
                  THEN (IF tombstone # -1 THEN tombstone ELSE index)
                  ELSE find_entry_loop(entries, key, next,
                                       IF tombstone = -1 THEN index ELSE tombstone,
                                       steps + 1)
             ELSE IF entry.key.hash = key
                  THEN index
                  ELSE find_entry_loop(entries, key, next, tombstone, steps + 1)

\* A find_entry that stops at the first tombstone instead of walking on
find_entry_StopAtTombstone(entries, key) ==
    LET i == find_entry_loop(entries, key, key % Len(entries), -1, 0)
        home == key % Len(entries)
        dist(j) == (j - home + Len(entries)) % Len(entries)
        tombs == {j \in 0..(Len(entries) - 1) : entries[j + 1] = [key |-> [bytes |-> "", hash |-> -1], value |-> Bool(TRUE)]}
        before == {j \in tombs : i = Diverges \/ dist(j) < dist(i)}
    IN  IF before = {} THEN i
        ELSE CHOOSE j \in before : \A m \in before : dist(j) <= dist(m)

\* A find_entry that forgets the tombstones it passed
find_entry_NoReuse(entries, key) ==
    LET stops == {n \in 0..Len(entries) - 1 :
                     LET e == entries[((key + n) % Len(entries)) + 1]
                     IN  e = EmptyEntry \/ (e.key # NoKey /\ e.key.hash = key)}
    IN  IF stops = {} THEN Diverges
        ELSE (key + (CHOOSE n \in stops : \A m \in stops : n <= m)) % Len(entries)

find_entry(entries, key) ==
    find_entry_loop(entries, key, key % Len(entries), -1, 0)

\* "missing" result of get (Option::None)
Missing == [t |-> "Missing", v |-> 0]
\* get did not return
Hang == [t |-> "Hang", v |-> 0]

HashTable_get(table, key) ==
    IF table.count = 0 THEN Missing
    ELSE LET i == find_entry(table.entries, key.hash)
         IN  IF i = Diverges THEN Hang
             ELSE IF table.entries[i + 1].key = NoKey THEN Missing
             ELSE table.entries[i + 1].value

\* A growth test without the load factor
NeedsGrow_WhenFull(table) == table.count + 1 > Len(table.entries)

\* (count + 1) as f32 > len as f32 * TABLE_MAX_LOAD, exact on small numbers
NeedsGrow(table) ==
    (table.count + 1) * TABLE_MAX_LOAD_DEN > Len(table.entries) * TABLE_MAX_LOAD_NUM

GrowCapacity(len) == IF len < MIN_CAPACITY THEN MIN_CAPACITY ELSE len * 2

\* The re-insertion loop of set: old slots i.. are copied into the new
\* array; a diverging probe is reported by the empty sequence.
RECURSIVE Rehash(_, _, _)
Rehash(old, i, new) ==
    IF i > Len(old) THEN new
    ELSE IF old[i].key = NoKey THEN Rehash(old, i + 1, new)
    ELSE LET dest == find_entry(new, old[i].key.hash)
         IN  IF dest = Diverges THEN << >>
             ELSE Rehash(old, i + 1,
                         [new EXCEPT ![dest + 1] = [key |-> old[i].key, value |-> old[i].value]])

Grown(table) ==
    IF NeedsGrow(table)
    THEN Rehash(table.entries, 1,
                [i \in 1..GrowCapacity(Len(table.entries)) |-> EmptyEntry])
    ELSE table.entries

\* set: the table afterwards, whether the key was new, whether it returned
HashTable_set(table, key, value) ==
    LET entries == Grown(table)
        entry == IF entries = << >> THEN Diverges ELSE find_entry(entries, key.hash)
    IN  IF entry = Diverges
        THEN [table |-> table, is_new_key |-> FALSE, hang |-> TRUE]
        ELSE LET is_new_key == entries[entry + 1].key = NoKey
             IN  [table |-> [entries |-> [entries EXCEPT ![entry + 1] = [key |-> key, value |-> value]],
                             count |-> IF is_new_key THEN table.count + 1 ELSE table.count],
                  is_new_key |-> is_new_key,
                  hang |-> FALSE]

\* delete(key: usize): the caller passes the hash
HashTable_delete(table, key) ==
    IF table.count = 0
    THEN [table |-> table, deleted |-> FALSE, hang |-> FALSE]
    ELSE LET entry == find_entry(table.entries, key)
         IN  IF entry = Diverges
             THEN [table |-> table, deleted |-> FALSE, hang |-> TRUE]
             ELSE IF table.entries[entry + 1].key = NoKey
             THEN [table |-> table, deleted |-> FALSE, hang |-> FALSE]
             ELSE [table |-> [table EXCEPT !.entries[entry + 1] = TombstoneEntry],
                   deleted |-> TRUE, hang |-> FALSE]

\* values(): the values of the slots that hold a key, in slot order
HashTable_values(table) ==
    LET keyed == SelectSeq(table.entries, LAMBDA e : e.key # NoKey)
    IN  [i \in 1..Len(keyed) |-> keyed[i].value]

(***************************************************************************)
(* Instructions (src/src/vm/instruction.rs)                                *)
(***************************************************************************)
OpReturn == 1
OpConstant == 2
OpNegate == 3
OpAdd == 4
OpSub == 5
OpMul == 6
OpDiv == 7
OpNot == 8
OpPop == 9
OpNewObject == 10
OpObjectSet == 11
OpDefineGlobal == 12
OpGetGlobal == 13
OpSetGlobal == 14
OpGetLocal == 15
OpSetLocal == 16
OpJumpIfFalse == 17
OpJump == 18
OpGreater == 19
OpLess == 20
OpPrint == 100

\* u8 and the placeholder byte of emit_jump
U8_MAX == 255
PLACEHOLDER == 255

(***************************************************************************)
(* The syntax tree the compiler consumes (StmtType / ExprType).            *)
(***************************************************************************)
EReal(n) == [k |-> "Real", n |-> n]
EBool(b) == [k |-> "Bool", b |-> b]
ENull == [k |-> "Null"]
EString(s) == [k |-> "String", s |-> s]
EBin(op, l, r) == [k |-> op, l |-> l, r |-> r]
EUn(op, i) == [k |-> op, i |-> i]
EObject(fields) == [k |-> "Object", fields |-> fields]
EVar(name) == [k |-> "Var", name |-> name]
EAssign(name, e) == [k |-> "Assign", name |-> name, e |-> e]

SExpr(e) == [k |-> "Expr", e |-> e]
SPrint(e) == [k |-> "Print", e |-> e]
SVar(name, e) == [k |-> "Var", name |-> name, e |-> e]
SBlock(body) == [k |-> "Block", body |-> body]
SNone == [k |-> "None"]
SIf(c, body, else_body) == [k |-> "If", c |-> c, body |-> body, else_body |-> else_body]
SWhile(c, body) == [k |-> "While", c |-> c, body |-> body]

(***************************************************************************)
(* Compiler (src/src/compiler/mod.rs).  The compiler state cs carries the  *)
(* chunk being written (code, constants), constant_pool, scope_depth and   *)
(* locals as in the code.  allocs lists the strings handed to vm.alloc, in *)
(* order: the n-th of them lives at heap address base + n.  panic is the   *)
(* message of the panic that ended the compilation, "" when none did.      *)
(* The remaining fields record where things were emitted and are read by   *)
(* the properties only:                                                    *)
(*   stmts   for every if / while: its first offset and its merge offset   *)
(*   decls   for every local declaration: the offsets at which its         *)
(*           initializer begins and ends                                   *)
(*   refs    for every GetLocal / SetLocal offset, the declaration (by the *)
(*           offset at which its initializer ends) resolve_local found     *)
(*   uses    for every Constant / DefineGlobal / GetGlobal / SetGlobal     *)
(*           offset, the index get_constant returned for it                *)
(***************************************************************************)
Compiler_new(base) ==
    [code |-> << >>, constants |-> << >>, constant_pool |-> {},
     lines |-> << >>, scope_depth |-> 0, locals |-> << >>,
     base |-> base, allocs |-> << >>, panic |-> "",
     stmts |-> << >>, decls |-> {}, refs |-> {}, uses |-> {}, ctx |-> 0, exp |-> << >>]

\* Chunk::last_byte_line
last_byte_line(cs) == IF cs.lines # << >> THEN cs.lines[Len(cs.lines)] ELSE 1

\* Chunk::write of the bytes bs, each with the given line.  ctx is the line
\* of the token of the expression being compiled, 0 outside of expressions,
\* and exp records it for each byte.
Chunk_write_all(cs, bs, line) ==
    [cs EXCEPT !.code = @ \o bs,
               !.lines = @ \o [i \in 1..Len(bs) |-> line],
               !.exp = @ \o [i \in 1..Len(bs) |-> cs.ctx]]
\* self.chunk.write(byte, self.chunk.last_byte_line())
Chunk_write(cs, byte) == Chunk_write_all(cs, <<byte>>, last_byte_line(cs))
\* write_byte!(byte) of visit_node: self.chunk.write(byte, node.token.line)
TokenLine(node) == IF "line" \in DOMAIN node THEN node.line ELSE 1
write_byte(cs, byte, node) == Chunk_write_all(cs, <<byte>>, TokenLine(node))

\* Chunk::add_constant: push, and the index of the new entry
Chunk_add_constant(cs, value) == [cs EXCEPT !.constants = Append(@, value)]

\* vm.alloc(Obj::new(ObjType::String(AnkokuString::new(..)))) during
\* compilation: the state afterwards; the reference is AllocRef of it.
alloc_string(cs, bytes) == [cs EXCEPT !.allocs = Append(@, bytes)]
AllocRef(cs) == ObjRef(cs.base + Len(cs.allocs))

\* constant_pool.get(&value): the index on a hit, -1 on a miss
PoolLookup(cs, value) ==
    LET hits == {p \in cs.constant_pool : Value_eq(p[1], value)}
    IN  IF hits = {} THEN -1 ELSE (CHOOSE p \in hits : TRUE)[2]

\* get_constant: the state afterwards and the index it returns.  Nothing is
\* ever inserted into constant_pool, so the lookup always misses.
get_constant(cs, value) ==
    LET hit == PoolLookup(cs, value)
    IN  IF hit # -1 THEN [cs |-> cs, index |-> hit]
        ELSE [cs |-> Chunk_add_constant(cs, value), index |-> Len(cs.constants)]

\* `index as u8`
AsU8(n) == n % (U8_MAX + 1)

\* the instruction, then the index get_constant returned `as u8`
emit_index(g, instruction) ==
    [Chunk_write(Chunk_write(g.cs, instruction), AsU8(g.index)) EXCEPT
        !.uses = @ \cup {<<Len(g.cs.code), g.index>>}]

write_constant(cs, value) == emit_index(get_constant(cs, value), OpConstant)

\* write_byte!(instruction); write_byte!(constant as u8) of visit_node
emit_global(g, instruction, node) ==
    [write_byte(write_byte(g.cs, instruction, node), AsU8(g.index), node) EXCEPT
        !.uses = @ \cup {<<Len(g.cs.code), g.index>>}]

begin_scope(cs) == [cs EXCEPT !.scope_depth = @ + 1]

\* the while loop of end_scope: while the last local is deeper than
\* scope_depth, one Pop is written and the local is popped.  Kept is the
\* number of locals left when the loop ends.
Kept(cs) ==
    IF \A i \in 1..Len(cs.locals) : cs.locals[i].depth > cs.scope_depth THEN 0
    ELSE CHOOSE i \in 1..Len(cs.locals) :
             /\ cs.locals[i].depth <= cs.scope_depth
             /\ \A j \in i + 1..Len(cs.locals) : cs.locals[j].depth > cs.scope_depth
end_scope_loop(cs) ==
    [Chunk_write_all(cs, [i \in 1..Len(cs.locals) - Kept(cs) |-> OpPop], last_byte_line(cs))
        EXCEPT !.locals = SubSeq(@, 1, Kept(cs))]

end_scope(cs) == end_scope_loop([cs EXCEPT !.scope_depth = @ - 1])

\* add_local refusing the local that would get slot U8_MAX
add_local_OneLess(cs, name) ==
    IF Len(cs.locals) >= U8_MAX
    THEN [cs EXCEPT !.panic = "too many locals in function"]
    ELSE [cs EXCEPT !.locals = Append(@, [name |-> name, depth |-> cs.scope_depth,
                                          decl |-> Len(cs.code)])]

add_local(cs, name) ==
    IF Len(cs.locals) > U8_MAX
    THEN [cs EXCEPT !.panic = "too many locals in function"]
    ELSE [cs EXCEPT !.locals = Append(@, [name |-> name, depth |-> cs.scope_depth,
                                          decl |-> Len(cs.code)])]

\* resolve_local searching from the head of locals
resolve_local_Oldest(cs, name) ==
    LET found == {i \in 1..Len(cs.locals) : cs.locals[i].name = name}
    IN  IF found = {} THEN -1
        ELSE (CHOOSE i \in found : \A j \in found : j >= i) - 1

\* resolve_local: the index of the last local of that name, -1 for None
resolve_local(cs, name) ==
    LET found == {i \in 1..Len(cs.locals) : cs.locals[i].name = name}
    IN  IF found = {} THEN -1
        ELSE (CHOOSE i \in found : \A j \in found : j <= i) - 1

\* emit_jump: the instruction and four placeholder bytes; the offset of the
\* operand is Len(code) - 4 afterwards
emit_jump(cs, instruction) ==
    Chunk_write_all(cs, <<instruction, PLACEHOLDER, PLACEHOLDER, PLACEHOLDER, PLACEHOLDER>>,
                    last_byte_line(cs))

\* the four bytes of a u32, big-endian
U32Bytes(n) ==
    <<(n \div 16777216) % 256, (n \div 65536) % 256, (n \div 256) % 256, n % 256>>

emit_loop(cs, loop_start) ==
    Chunk_write_all(cs, <<OpJump>> \o U32Bytes(loop_start), last_byte_line(cs))

\* patch_jump writing the offset after the current end of the code
patch_jump_PastEnd(cs, jmp_offset) ==
    LET b == U32Bytes(Len(cs.code) + 1)
    IN  [cs EXCEPT !.code = [i \in 1..Len(@) |->
                                IF i > jmp_offset /\ i <= jmp_offset + 4
                                THEN b[i - jmp_offset] ELSE @[i]]]

patch_jump(cs, jmp_offset) ==
    LET jump == Len(cs.code)
        b == U32Bytes(jump)
    IN  [cs EXCEPT !.code = [i \in 1..Len(@) |->
                                IF i > jmp_offset /\ i <= jmp_offset + 4
                                THEN b[i - jmp_offset] ELSE @[i]]]

BinaryOp(k) ==
    CASE k = "Add" -> OpAdd
      [] k = "Subtract" -> OpSub
      [] k = "Multiply" -> OpMul
      [] k = "Divide" -> OpDiv
      [] k = "Greater" -> OpGreater
      [] k = "Less" -> OpLess

RECURSIVE visit_node(_, _)
RECURSIVE visit_fields(_, _, _, _)
RECURSIVE visit_expr(_, _)
RECURSIVE visit_stmt(_, _)
RECURSIVE visit_range(_, _, _, _)

\* the (key, value) loop of ExprType::Object
visit_fields(cs, fields, i, node) ==
    IF i > Len(fields) \/ cs.panic # "" THEN cs
    ELSE LET a == alloc_string(cs, fields[i][1])
             c == write_constant(a, AllocRef(a))
             v == visit_node(c, fields[i][2])
         IN  visit_fields(write_byte(v, OpObjectSet, node), fields, i + 1, node)

\* visit_node: the match on node.kind, compiled as the expression node
visit_node(cs, node) ==
    [visit_expr([cs EXCEPT !.ctx = TokenLine(node)], node) EXCEPT !.ctx = cs.ctx]

visit_expr(cs, node) ==
    IF cs.panic # "" THEN cs
    ELSE CASE node.k = "Real" -> write_constant(cs, Real(node.n))
           [] node.k = "Bool" -> write_constant(cs, Bool(node.b))
           [] node.k = "Null" -> [cs EXCEPT !.panic = "not yet implemented"]
           [] node.k \in {"Add", "Subtract", "Multiply", "Divide", "Greater", "Less"} ->
                write_byte(visit_node(visit_node(cs, node.l), node.r), BinaryOp(node.k), node)
           [] node.k = "Negate" -> write_byte(visit_node(cs, node.i), OpNegate, node)
           [] node.k = "Not" -> write_byte(visit_node(cs, node.i), OpNot, node)
           [] node.k = "Grouping" -> visit_node(cs, node.i)
           [] node.k = "Object" -> visit_fields(write_byte(cs, OpNewObject, node), node.fields, 1, node)
           [] node.k = "Var" ->
                LET local == resolve_local(cs, node.name)
                IN  IF local # -1
                    THEN [write_byte(write_byte(cs, OpGetLocal, node), AsU8(local), node) EXCEPT
                             !.refs = @ \cup {<<Len(cs.code), cs.locals[local + 1].decl>>}]
                    ELSE LET a == alloc_string(cs, node.name)
                         IN  emit_global(get_constant(a, AllocRef(a)), OpGetGlobal, node)
           [] node.k = "Assign" ->
                LET v == visit_node(cs, node.e)
                    local == resolve_local(v, node.name)
                IN  IF v.panic # "" THEN v
                    ELSE IF local # -1
                    THEN [write_byte(write_byte(v, OpSetLocal, node), AsU8(local), node) EXCEPT
                             !.refs = @ \cup {<<Len(v.code), v.locals[local + 1].decl>>}]
                    ELSE LET a == alloc_string(v, node.name)
                         IN  emit_global(get_constant(a, AllocRef(a)), OpSetGlobal, node)
           [] node.k = "String" ->
                LET a == alloc_string(cs, node.s)
                IN  write_constant(a, AllocRef(a))
           [] node.k = "And" ->
                LET l == emit_jump(visit_node(cs, node.l), OpJumpIfFalse)
                    end_jump == Len(l.code) - 4
                    r == visit_node(write_byte(l, OpPop, node), node.r)
                IN  IF r.panic # "" THEN r ELSE patch_jump(r, end_jump)
           [] node.k = "Or" ->
                LET l == emit_jump(visit_node(cs, node.l), OpJumpIfFalse)
                    else_jump == Len(l.code) - 4
                    j == emit_jump(l, OpJump)
                    end_jump == Len(j.code) - 4
                    r == visit_node(write_byte(patch_jump(j, else_jump), OpPop, node), node.r)
                IN  IF r.panic # "" THEN r ELSE patch_jump(r, end_jump)

\* the scan of StmtType::Var for a local of the same name in this scope
DeclaredInScope(cs, name) ==
    \E i \in 1..Len(cs.locals) :
        /\ cs.locals[i].name = name
        /\ \A j \in i..Len(cs.locals) : cs.locals[j].depth >= cs.scope_depth

\* `for b in block { self.visit_stmt(b, vm) }` over body[i..j], halved so
\* that long blocks do not nest the evaluation deeply
visit_range(cs, body, i, j) ==
    IF i > j \/ cs.panic # "" THEN cs
    ELSE IF i = j THEN visit_stmt(cs, body[i])
    ELSE visit_range(visit_range(cs, body, i, (i + j) \div 2), body, (i + j) \div 2 + 1, j)
visit_block(cs, body, i) == visit_range(cs, body, i, Len(body))

\* write_byte!(byte) after the expression that left e
emit_after(e, byte) == IF e.panic # "" THEN e ELSE Chunk_write(e, byte)

\* self.end_scope() after the statements of a block, which left b
end_block(b) == IF b.panic # "" THEN b ELSE end_scope(b)

\* the declaration add_local has pushed is recorded with its offsets
declared(a, from, to) ==
    IF a.panic # "" THEN a ELSE [a EXCEPT !.decls = @ \cup {<<from, to>>}]

\* StmtType::Var once the initializer, which began at offset from, left v
declare_var(v, name, from) ==
    IF v.panic # "" THEN v
    ELSE IF v.scope_depth = 0
    THEN emit_index(get_constant(alloc_string(v, name), AllocRef(alloc_string(v, name))),
                    OpDefineGlobal)
    ELSE IF DeclaredInScope(v, name)
    THEN [v EXCEPT !.panic = "already variable in this scope"]
    ELSE declared(add_local(v, name), from, Len(v.code))

\* the if / while that began at offset start ends where e ends
record_stmt(e, kind, start) ==
    IF e.panic # "" THEN e
    ELSE [e EXCEPT !.stmts = Append(@, [kind |-> kind, start |-> start, end |-> Len(e.code)])]

\* the block that began at offset start in the state cs ends where e ends,
\* its statements having left b: before and after are the locals around
\* it, inner the locals at the end of its statements, and tail the bytes
\* end_scope wrote
record_block(e, b, cs) ==
    IF e.panic # "" THEN e
    ELSE [e EXCEPT !.stmts = Append(@, [kind |-> "Block", start |-> Len(cs.code),
                                        end |-> Len(e.code),
                                        before |-> cs.locals, after |-> e.locals,
                                        inner |-> b.locals,
                                        tail |-> SubSeq(e.code, Len(b.code) + 1, Len(e.code))])]
\* StmtType::Block from `for b in block`, begin_scope having left c
block_body(c, stmt, cs) ==
    record_block(end_block(visit_block(c, stmt.body, 1)), visit_block(c, stmt.body, 1), cs)

\* StmtType::If from `let jump = self.emit_jump(JumpIfFalse)`, which left c
if_then(c, stmt) == emit_jump(visit_stmt(Chunk_write(c, OpPop), stmt.body), OpJump)
\* from `self.patch_jump(jump)`, the body and emit_jump(Jump) having left body
if_else(body, jump, stmt) ==
    IF stmt.else_body.k = "None" THEN Chunk_write(patch_jump(body, jump), OpPop)
    ELSE visit_stmt(Chunk_write(patch_jump(body, jump), OpPop), stmt.else_body)
\* `self.patch_jump(else_jump)`
if_end(e, else_jump) == IF e.panic # "" THEN e ELSE patch_jump(e, else_jump)
if_body(c, stmt) ==
    if_end(if_else(if_then(c, stmt), Len(c.code) - 4, stmt), Len(if_then(c, stmt).code) - 4)

\* StmtType::While from `let exit_jump = self.emit_jump(JumpIfFalse)`
while_end(body, loop_start, exit_jump) ==
    IF body.panic # "" THEN body
    ELSE Chunk_write(patch_jump(emit_loop(body, loop_start), exit_jump), OpPop)
while_body(c, stmt, loop_start) ==
    while_end(visit_stmt(Chunk_write(c, OpPop), stmt.body), loop_start, Len(c.code) - 4)

visit_stmt(cs, stmt) ==
    IF cs.panic # "" THEN cs
    ELSE CASE stmt.k = "Expr" -> emit_after(visit_node(cs, stmt.e), OpPop)
           [] stmt.k = "Print" -> emit_after(visit_node(cs, stmt.e), OpPrint)
           [] stmt.k = "Var" -> declare_var(visit_node(cs, stmt.e), stmt.name, Len(cs.code))
           [] stmt.k = "Block" -> block_body(begin_scope(cs), stmt, cs)
           [] stmt.k = "If" ->
                record_stmt(if_body(emit_jump(visit_node(cs, stmt.c), OpJumpIfFalse), stmt),
                            "If", Len(cs.code))
           [] stmt.k = "While" ->
                record_stmt(while_body(emit_jump(visit_node(cs, stmt.c), OpJumpIfFalse), stmt,
                                       Len(cs.code)),
                            "While", Len(cs.code))

\* Compiler::compile: every statement, then Return
Compiler_compile(stmts, base) ==
    emit_after(visit_block(Compiler_new(base), stmts, 1), OpReturn)

(***************************************************************************)
(* Heap objects (src/src/vm/obj.rs).  The heap is a sequence of objects,   *)
(* an object's address being its index; addresses are never reused.  The   *)
(* intrusive list rooted at VM.objects is the sequence objects of          *)
(* addresses, head first, which stands for the next links.  freed records  *)
(* that sweep has dropped the object; its fields keep what they held, which*)
(* is what a read through a dangling reference may still see.              *)
(***************************************************************************)
StringObj(bytes) ==
    [kind |-> "String", str |-> AnkokuString_new(bytes), table |-> HashTable_new,
     marked |-> FALSE, freed |-> FALSE]
TableObj ==
    [kind |-> "Object", str |-> NoKey, table |-> HashTable_new,
     marked |-> FALSE, freed |-> FALSE]

\* STACK_MAX of stack_push
STACK_MAX == 1024

(***************************************************************************)
(* Value operations (src/src/vm/value.rs).  Each returns a record: ok says *)
(* whether it returned, value what, and obj the object it allocated        *)
(* (NoObj when none).  Not ok is the panic of todo!().                     *)
(***************************************************************************)
NoObj == [kind |-> "None"]
Panicked == [ok |-> FALSE, value |-> Null, obj |-> NoObj]
Returned(v) == [ok |-> TRUE, value |-> v, obj |-> NoObj]

coerce_real_ok(v) == v.t \in {"Bool", "Real"}
coerce_real(v) == v.v

\* f64 division on the representatives: exact quotients, and the two
\* infinities and NaN of a zero divisor
F64_INF == 1000000
F64_NAN == 2000000
RealDiv(a, b) ==
    IF b = 0 THEN (IF a = 0 THEN F64_NAN ELSE IF a > 0 THEN F64_INF ELSE -F64_INF)
    ELSE IF a % b = 0 THEN a \div b
    ELSE F64_NAN + 1

\* f64::to_string on the representatives used as right operands of a
\* string concatenation
RealToString(n) ==
    CASE n = 0 -> "0"
      [] n = 1 -> "1"
      [] n = 2 -> "2"
      [] OTHER -> "n"

coerce_str_ok(heap, v) ==
    \/ v.t \in {"Bool", "Real"}
    \/ v.t = "Obj" /\ heap[v.v].kind = "String"
coerce_str(heap, v) ==
    CASE v.t = "Bool" -> (IF v.v = 1 THEN "true" ELSE "false")
      [] v.t = "Real" -> RealToString(v.v)
      [] OTHER -> heap[v.v].str.bytes

\* the arithmetic shared by sub, mul and div: a Real on the left, a value
\* that coerce_real accepts on the right
Value_arith(a, b, r) ==
    IF a.t = "Real" /\ coerce_real_ok(b) THEN Returned(Real(r)) ELSE Panicked

\* add with the string form of the right operand in front
Value_add_Prepending(heap, a, b) ==
    CASE a.t = "Real" -> Value_arith(a, b, a.v + coerce_real(b))
      [] a.t = "Obj" ->
            IF heap[a.v].kind = "String" /\ coerce_str_ok(heap, b)
            THEN [ok |-> TRUE, value |-> ObjRef(Len(heap) + 1),
                  obj |-> StringObj(coerce_str(heap, b) \o heap[a.v].str.bytes)]
            ELSE Panicked
      [] OTHER -> Panicked

Value_add(heap, a, b) ==
    CASE a.t = "Real" -> Value_arith(a, b, a.v + coerce_real(b))
      [] a.t = "Obj" ->
            IF heap[a.v].kind = "String" /\ coerce_str_ok(heap, b)
            THEN [ok |-> TRUE, value |-> ObjRef(Len(heap) + 1),
                  obj |-> StringObj(heap[a.v].str.bytes \o coerce_str(heap, b))]
            ELSE Panicked
      [] OTHER -> Panicked
Value_sub(a, b) == Value_arith(a, b, a.v - coerce_real(b))
Value_mul(a, b) == Value_arith(a, b, a.v * coerce_real(b))
Value_div(a, b) == Value_arith(a, b, RealDiv(a.v, coerce_real(b)))
Value_neg(a) == IF a.t = "Real" THEN Returned(Real(-a.v)) ELSE Panicked
Value_not(a) == IF a.t = "Bool" THEN Returned(Bool(a.v = 0)) ELSE Panicked

\* Value::falsey as the code has it
falsey(v) ==
    CASE v.t = "Bool" -> v.v = 0
      [] v.t = "Null" -> TRUE
      [] v.t = "Real" -> v.v # 0
      [] v.t = "Obj" -> TRUE

(***************************************************************************)
(* State.  table .. treused belong to the stand-alone table of SpecTable   *)
(* and SpecLoad, the others to the VM of Spec.                             *)
(***************************************************************************)
VARIABLES
    prog,       \* the index in Programs of what was compiled (0: nothing yet)
    pending,    \* the chunk Compiler::compile returned, until interpret takes it
    meta,       \* where the compiler emitted statements and locals (for the properties)
    chunk,      \* VM.chunk
    ip,         \* VM.ip
    stack,      \* VM.stack
    globals,    \* VM.globals
    heap,       \* the objects ever allocated, by address
    objects,    \* VM.objects: the addresses on the intrusive list, head first
    status,     \* new, compiled, running, Ok, RuntimeError, panic, hang, crash
    err,        \* the runtime error an instruction detected, "none" before any
    out,        \* what Print wrote
    owner,      \* per stack slot: the local declaration whose value it holds, or -1
    entryDepth, \* per if / while being executed: the stack depth when it was entered, else -1
    defined,    \* the names (bytes) a DefineGlobal has bound so far
    slow,       \* the build has the feature gc-debug-super-slow
    collected,  \* the host has called collect() on the VM
    table,      \* the HashTable under test
    shadow,     \* per key bytes: the value of the latest set, Deleted, or Missing
    used,       \* the keys passed to set or delete so far, of those that share their hash
    hung,       \* an operation did not return
    got,        \* what the latest get returned
    treused,    \* some set has written into a tombstone slot
    source,     \* the characters of the program text
    tokenizer,  \* Tokenizer: start, current, line, done
    tokens,     \* the tokens collected from the tokenizer
    parser,     \* Parser: current, panic_mode
    stmts,      \* the statements Stmt::parse has pushed
    errors,     \* the errors Stmt::parse has pushed
    fstatus     \* tokenizing, parsing, parsed, panic

tvars == <<table, shadow, used, hung, got, treused>>
vmvars == <<prog, pending, meta, chunk, ip, stack, globals, heap, objects, status, err, out,
            owner, entryDepth, defined, slow, collected>>
fvars == <<source, tokenizer, tokens, parser, stmts, errors, fstatus>>
vars == <<tvars, vmvars, fvars>>

\* MaxCount caps HashTable.count, which the code never decreases.
MaxCount == 7
\* MaxOut caps the values printed and MaxObjs the objects allocated in a run.
MaxOut == 3
MaxObjs == 8
\* MaxDepth caps the operand stack a run may build.
MaxDepth == 6
\* MaxTokens caps the lexemes of a generated source, MaxErrors the errors
\* Stmt::parse collects.
MaxTokens == 3
MaxErrors == 5
\* SpecTable: few keys, one pair of them with equal hashes, two values that
\* are also the encodings of the empty slot and of the tombstone.
TableKeys == {"a", "b", "c", "d", "x"}
TableValues == {Null, Bool(TRUE)}
\* SpecLoad: enough keys of different hashes to fill a table of capacity 8.
LoadKeys == {"k1", "k2", "k3", "k4", "k5", "k6", "k7"}
LoadValues == {Real(1)}
AllKeys == TableKeys \cup LoadKeys

\* The keys whose hash is also the hash of other bytes
Clashing == {k \in AllKeys : \E j \in AllKeys : j # k /\ hash_bytes(j) = hash_bytes(k)}

Deleted == [t |-> "Deleted", v |-> 0]

TableInit ==
    /\ table = HashTable_new
    /\ shadow = [k \in AllKeys |-> Missing]
    /\ used = {}
    /\ hung = FALSE
    /\ got = Missing
    /\ treused = FALSE

\* Some slot holds a key with these bytes
PresentIn(t, bytes) == \E i \in 1..Len(t.entries) : t.entries[i].key.bytes = bytes /\ t.entries[i].key # NoKey

\* table.set(key, value)
TSet(k, v) ==
    /\ ~hung
    /\ table.count < MaxCount
    /\ LET r == HashTable_set(table, AnkokuString_new(k), v)
           g == Grown(table)
           slot == IF g = << >> THEN Diverges ELSE find_entry(g, hash_bytes(k))
       IN  /\ table' = r.table
           /\ hung' = r.hang
           /\ treused' = (treused \/ (slot # Diverges /\ g[slot + 1] = TombstoneEntry))
    /\ shadow' = [shadow EXCEPT ![k] = v]
    /\ used' = used \cup ({k} \cap Clashing)
    /\ UNCHANGED got
    /\ UNCHANGED <<vmvars, fvars>>

\* table.delete(key.hash())
TDelete(k) ==
    /\ ~hung
    /\ LET r == HashTable_delete(table, hash_bytes(k))
       IN  /\ table' = r.table
           /\ hung' = r.hang
    /\ shadow' = [shadow EXCEPT ![k] = IF PresentIn(table, k) THEN Deleted ELSE @]
    /\ used' = used \cup ({k} \cap Clashing)
    /\ UNCHANGED <<got, treused>>
    /\ UNCHANGED <<vmvars, fvars>>

\* table.get(&key)
TGet(k) ==
    /\ ~hung
    /\ LET r == HashTable_get(table, AnkokuString_new(k))
       IN  /\ got' = r
           /\ hung' = (r = Hang)
    /\ UNCHANGED <<table, shadow, used, treused>>
    /\ UNCHANGED <<vmvars, fvars>>

TableNext ==
    \/ \E k \in TableKeys, v \in TableValues : TSet(k, v)
    \/ \E k \in TableKeys : TDelete(k)
    \/ \E k \in TableKeys : TGet(k)

LoadNext ==
    \/ \E k \in LoadKeys, v \in LoadValues : TSet(k, v)
    \/ \E k \in LoadKeys : TDelete(k)
    \/ \E k \in LoadKeys : TGet(k)


(***************************************************************************)
(* The VM (src/src/vm/mod.rs)                                              *)
(***************************************************************************)
\* no program has been compiled yet
NoProgram == [src |-> "none", stmts |-> << >>, code |-> << >>, constants |-> << >>, objs |-> << >>]

VMInit ==
    /\ prog = NoProgram
    /\ pending = [code |-> << >>, constants |-> << >>, lines |-> << >>]
    /\ meta = [stmts |-> << >>, decls |-> {}, refs |-> {}, uses |-> {}, exp |-> << >>]
    /\ chunk = [code |-> << >>, constants |-> << >>, lines |-> << >>]
    /\ ip = 0
    /\ stack = << >>
    /\ globals = HashTable_new
    /\ heap = << >>
    /\ objects = << >>
    /\ status = "new"
    /\ err = "none"
    /\ out = << >>
    /\ owner = << >>
    /\ entryDepth = << >>
    /\ defined = {}
    /\ collected = FALSE

\* The owner and entryDepth of the next state, from its stack and ip: npop
\* slots were popped before anything was pushed.  meta.decls holds, for
\* each local, the offsets <<from, to>> of its initializer; the slot on top
\* when ip comes from inside an initializer to its end holds that local.
\* An if / while is entered when ip comes to its first offset while it is
\* not being executed, and left when ip moves on from its merge offset.
Tracked(npop) ==
    /\ owner' =
         LET kept == SubSeq(owner, 1, Len(stack) - npop)
             slots == [i \in 1..Len(stack') |-> IF i <= Len(kept) THEN kept[i] ELSE -1]
             ends == {d \in meta'.decls : d[2] = ip' /\ d[1] <= ip /\ ip < d[2]}
         IN  IF status = "running" /\ status' = "running" /\ ends # {} /\ Len(stack') > 0
             THEN [slots EXCEPT ![Len(stack')] = ip']
             ELSE slots
    /\ entryDepth' =
         [n \in 1..Len(meta'.stmts) |->
            LET before == IF n > Len(entryDepth) \/ meta.stmts[n].end = ip
                          THEN -1 ELSE entryDepth[n]
            IN  IF before = -1 /\ status' = "running" /\ meta'.stmts[n].start = ip'
                THEN Len(stack') ELSE before]

\* alloc: the object goes to the head of the list
alloc_heap(h, obj) == Append(h, obj)
alloc_objects(h, objs) == <<Len(h) + 1>> \o objs

\* mark_roots over a stack and a table of globals
RootsOf(stk, g) ==
    {stk[i].v : i \in {j \in 1..Len(stk) : stk[j].t = "Obj"}}
        \cup {v.v : v \in {x \in {g.entries[i].value : i \in 1..Len(g.entries)} :
                              x.t = "Obj"}}

\* With gc-debug-super-slow sweep overwrites the object it dropped with
\* mem::zeroed(): all fields zero, which for kind is the first variant,
\* String, of no bytes.
Zeroed ==
    [kind |-> "String", str |-> [bytes |-> "", hash |-> 0], table |-> HashTable_new,
     marked |-> FALSE, freed |-> TRUE]

Listed(objs, a) == \E i \in 1..Len(objs) : objs[i] = a
\* marked when sweep comes to it: marked before, or one of the roots R
KeptBy(h, R, a) == h[a].marked \/ a \in R

\* self.collect() as alloc calls it with gc-debug-super-slow, the roots
\* being R
collect_in_alloc(st, R) ==
    [heap |-> [a \in 1..Len(st.heap) |->
                  IF Listed(st.objects, a)
                  THEN IF KeptBy(st.heap, R, a) THEN [st.heap[a] EXCEPT !.marked = FALSE]
                       ELSE Zeroed
                  ELSE [st.heap[a] EXCEPT !.marked = KeptBy(st.heap, R, a)]],
     objects |-> SelectSeq(st.objects, LAMBDA a : KeptBy(st.heap, R, a))]

\* VM::alloc: the object goes to the head of the list; with
\* gc-debug-super-slow collect() runs before the reference is returned
alloc(st, obj, R) ==
    IF slow
    THEN collect_in_alloc([heap |-> alloc_heap(st.heap, obj),
                           objects |-> alloc_objects(st.heap, st.objects)], R)
    ELSE [heap |-> alloc_heap(st.heap, obj), objects |-> alloc_objects(st.heap, st.objects)]

RECURSIVE alloc_all(_, _, _)
alloc_all(st, objs, i) ==
    IF i > Len(objs) THEN st
    ELSE alloc_all(alloc(st, objs[i], RootsOf(stack, globals)), objs, i + 1)

(***************************************************************************)
(* VM::run.  Each instruction is an operator from the current state to the *)
(* record of what it leaves: ip, stack, globals, heap, objects, status,    *)
(* err, out, and npop, the number of slots it popped.  A Rust panic        *)
(* (an index out of bounds, stack_pop on an empty stack, todo!(),          *)
(* unimplemented!()) ends the process: status "panic".  type_error and     *)
(* runtime_error build a RuntimeError value that run() drops; err records  *)
(* that the instruction detected the error.                                *)
(***************************************************************************)
Same ==
    [ip |-> ip, stack |-> stack, globals |-> globals, heap |-> heap, objects |-> objects,
     status |-> status, err |-> err, out |-> out, npop |-> 0]
PanicR == [Same EXCEPT !.status = "panic"]

Depth == Len(stack)
Peek(n) == stack[Depth - n]
Popped(n) == SubSeq(stack, 1, Depth - n)
HasCode(n) == ip + n <= Len(chunk.code)
Byte(n) == chunk.code[ip + n + 1]
\* read_u32!() of the four bytes after the opcode
ReadU32 == Byte(1) * 16777216 + Byte(2) * 65536 + Byte(3) * 256 + Byte(4)
\* read_constant!() can index the constants
HasConstant == HasCode(2) /\ Byte(1) < Len(chunk.constants)
ReadConstant == chunk.constants[Byte(1) + 1]
IsString(h, v) == v.t = "Obj" /\ h[v.v].kind = "String"
IsTable(h, v) == v.t = "Obj" /\ h[v.v].kind = "Object"

\* type_error(..) / runtime_error(..): the value is dropped, run() goes on
type_error(r) == [r EXCEPT !.err = "TypeError"]
runtime_error(r) == [r EXCEPT !.err = "UndefinedVariable"]

\* stack_push onto the stack st of r
Push(r, v) ==
    IF Len(r.stack) >= STACK_MAX THEN [r EXCEPT !.status = "panic"]
    ELSE [r EXCEPT !.stack = Append(@, v)]

Running == status = "running"
\* the opcode read_byte!() fetches, -1 past the end of the code
Instr == IF ip < Len(chunk.code) THEN chunk.code[ip + 1] ELSE -1
At(op) == Running /\ Instr = op

\* the bytes of the name constant of a DefineGlobal / GetGlobal / SetGlobal
GlobalName == heap[ReadConstant.v].str.bytes

\* the state after an instruction that left r; a DefineGlobal that went on
\* to the next instruction without an error has bound its name
Apply(r) ==
    /\ Len(r.stack) <= MaxDepth
    /\ ip' = r.ip
    /\ stack' = r.stack
    /\ globals' = r.globals
    /\ heap' = r.heap
    /\ objects' = r.objects
    /\ status' = r.status
    /\ err' = r.err
    /\ out' = r.out
    /\ defined' = IF Instr = OpDefineGlobal /\ r.ip = ip + 2 /\ r.err = err
                   THEN defined \cup {GlobalName} ELSE defined
    /\ UNCHANGED <<prog, pending, meta, chunk, slow, collected, tvars, fvars>>
    /\ Tracked(r.npop)

ExecReturn ==
    /\ At(OpReturn)
    /\ Apply([Same EXCEPT !.ip = ip + 1, !.status = "Ok"])

ExecConstant ==
    /\ At(OpConstant)
    /\ Apply(IF ~HasConstant THEN PanicR
            ELSE Push([Same EXCEPT !.ip = ip + 2], ReadConstant))

\* Negate and Not: pop, apply, push
DoUnary(res) ==
    IF Depth < 1 THEN PanicR
    ELSE IF ~res.ok THEN [PanicR EXCEPT !.err = "TypeMismatch"]
    ELSE Push([Same EXCEPT !.ip = ip + 1, !.stack = Popped(1), !.npop = 1], res.value)

\* Add, Sub, Mul, Div: pop b, pop a, apply, push; Add may allocate
DoBinary(res) ==
    IF Depth < 2 THEN PanicR
    ELSE IF ~res.ok THEN [PanicR EXCEPT !.err = "TypeMismatch"]
    ELSE LET r == [Same EXCEPT !.ip = ip + 1, !.stack = Popped(2), !.npop = 2]
             a == IF res.obj = NoObj THEN [heap |-> heap, objects |-> objects]
                  ELSE alloc([heap |-> heap, objects |-> objects], res.obj,
                             RootsOf(Popped(2), globals))
         IN  Push([r EXCEPT !.heap = a.heap, !.objects = a.objects], res.value)

ExecPop ==
    /\ At(OpPop)
    /\ Apply(IF Depth < 1 THEN PanicR
            ELSE [Same EXCEPT !.ip = ip + 1, !.stack = Popped(1), !.npop = 1])

\* println!("{:?}", pop): what is written for a value
Render(h, v) ==
    CASE v.t = "Obj" /\ h[v.v].kind = "String" -> [t |-> "Str", n |-> 0, s |-> h[v.v].str.bytes]
      [] v.t = "Obj" /\ h[v.v].kind = "Object" ->
            [t |-> "Table", n |-> Len(HashTable_values(h[v.v].table)), s |-> ""]
      [] OTHER -> [t |-> v.t, n |-> v.v, s |-> ""]

ExecPrint ==
    /\ At(OpPrint)
    /\ Len(out) < MaxOut
    /\ Apply(IF Depth < 1 THEN PanicR
            ELSE [Same EXCEPT !.ip = ip + 1, !.stack = Popped(1), !.npop = 1,
                              !.out = Append(out, Render(heap, Peek(0)))])

\* self.alloc(obj) while the stack is stk
Allocating(obj, stk) == alloc([heap |-> heap, objects |-> objects], obj, RootsOf(stk, globals))

ExecNewObject ==
    /\ At(OpNewObject)
    /\ Len(heap) < MaxObjs
    /\ Apply(Push([Same EXCEPT !.ip = ip + 1, !.heap = Allocating(TableObj, stack).heap,
                              !.objects = Allocating(TableObj, stack).objects],
                 ObjRef(Len(heap) + 1)))

ExecObjectSet ==
    /\ At(OpObjectSet)
    /\ Apply(IF Depth < 2 THEN PanicR
            ELSE LET value == Peek(0)
                     key == Peek(1)
                     r == [Same EXCEPT !.ip = ip + 1, !.stack = Popped(2), !.npop = 2]
                 IN  IF ~IsString(heap, key) THEN type_error(r)
                     ELSE IF Depth < 3 THEN PanicR
                     ELSE LET object == Peek(2)
                          IN  IF ~IsTable(heap, object) THEN type_error(r)
                              ELSE LET t == HashTable_set(heap[object.v].table, heap[key.v].str, value)
                                   IN  IF t.hang THEN [Same EXCEPT !.status = "hang"]
                                       ELSE [r EXCEPT !.heap[object.v].table = t.table])

ExecDefineGlobal ==
    /\ At(OpDefineGlobal)
    /\ Apply(IF ~HasConstant THEN PanicR
            ELSE LET name == ReadConstant
                     r == [Same EXCEPT !.ip = ip + 2]
                 IN  IF ~IsString(heap, name) THEN type_error(r)
                     ELSE IF Depth < 1 THEN PanicR
                     ELSE LET t == HashTable_set(globals, heap[name.v].str, Peek(0))
                          IN  IF t.hang THEN [Same EXCEPT !.status = "hang"]
                              ELSE [r EXCEPT !.stack = Popped(1), !.npop = 1, !.globals = t.table])

ExecGetGlobal ==
    /\ At(OpGetGlobal)
    /\ Apply(IF ~HasConstant THEN PanicR
            ELSE LET name == ReadConstant
                     r == [Same EXCEPT !.ip = ip + 2]
                 IN  IF ~IsString(heap, name) THEN type_error(r)
                     ELSE LET value == HashTable_get(globals, heap[name.v].str)
                          IN  IF value = Hang THEN [Same EXCEPT !.status = "hang"]
                              ELSE IF value = Missing THEN runtime_error(r)
                              ELSE Push(r, value))

ExecSetGlobal ==
    /\ At(OpSetGlobal)
    /\ Apply(IF ~HasConstant THEN PanicR
            ELSE LET name == ReadConstant
                     r == [Same EXCEPT !.ip = ip + 2]
                 IN  IF ~IsString(heap, name) THEN type_error(r)
                     ELSE IF Depth < 1 THEN PanicR
                     ELSE LET t == HashTable_set(globals, heap[name.v].str, Peek(0))
                              d == HashTable_delete(t.table, heap[name.v].str.hash)
                          IN  IF t.hang \/ (t.is_new_key /\ d.hang) THEN [Same EXCEPT !.status = "hang"]
                              ELSE IF t.is_new_key
                              THEN runtime_error([r EXCEPT !.globals = d.table])
                              ELSE [r EXCEPT !.globals = t.table])

ExecGetLocal ==
    /\ At(OpGetLocal)
    /\ Apply(IF ~HasCode(2) \/ Byte(1) >= Depth THEN PanicR
            ELSE Push([Same EXCEPT !.ip = ip + 2], stack[Byte(1) + 1]))

ExecSetLocal ==
    /\ At(OpSetLocal)
    /\ Apply(IF ~HasCode(2) \/ Byte(1) >= Depth THEN PanicR
            ELSE [Same EXCEPT !.ip = ip + 2, !.stack[Byte(1) + 1] = Peek(0)])

ExecJumpIfFalse ==
    /\ At(OpJumpIfFalse)
    /\ Apply(IF ~HasCode(5) \/ Depth < 1 THEN PanicR
            ELSE [Same EXCEPT !.ip = IF falsey(Peek(0)) THEN ReadU32 ELSE ip + 5])

ExecJump ==
    /\ At(OpJump)
    /\ Apply(IF ~HasCode(5) THEN PanicR
            ELSE [Same EXCEPT !.ip = ReadU32])

ExecNegate == At(OpNegate) /\ Apply(DoUnary(IF Depth < 1 THEN Panicked ELSE Value_neg(Peek(0))))
ExecNot == At(OpNot) /\ Apply(DoUnary(IF Depth < 1 THEN Panicked ELSE Value_not(Peek(0))))
ExecAdd == At(OpAdd) /\ Apply(DoBinary(IF Depth < 2 THEN Panicked ELSE Value_add(heap, Peek(1), Peek(0))))
ExecSub == At(OpSub) /\ Apply(DoBinary(IF Depth < 2 THEN Panicked ELSE Value_sub(Peek(1), Peek(0))))
ExecMul == At(OpMul) /\ Apply(DoBinary(IF Depth < 2 THEN Panicked ELSE Value_mul(Peek(1), Peek(0))))
ExecDiv == At(OpDiv) /\ Apply(DoBinary(IF Depth < 2 THEN Panicked ELSE Value_div(Peek(1), Peek(0))))
\* `_ => unimplemented!()`: Greater, Less and every other byte; reading past
\* the end of the code panics as well
ExecUnimplemented ==
    /\ Running
    /\ Instr \notin {OpReturn, OpConstant, OpNegate, OpAdd, OpSub, OpMul, OpDiv, OpNot, OpPop,
                     OpPrint, OpNewObject, OpObjectSet, OpDefineGlobal, OpGetGlobal,
                     OpSetGlobal, OpGetLocal, OpSetLocal, OpJumpIfFalse, OpJump}
    /\ Apply(PanicR)

(***************************************************************************)
(* Garbage collection (VM::collect).  sweep drops an unmarked object in    *)
(* place: the object leaves the list and is freed, and a reference to it   *)
(* dangles.  A read through a dangling reference either finds what the     *)
(* object held or faults: status "crash".                                  *)
(***************************************************************************)
\* the objects the values of a table refer to
Children(h, a) ==
    IF h[a].kind = "Object"
    THEN {v.v : v \in {x \in {h[a].table.entries[i].value : i \in 1..Len(h[a].table.entries)} :
                          x.t = "Obj"}}
    ELSE {}

RECURSIVE Reach(_, _)
Reach(h, S) ==
    LET next == S \cup UNION {Children(h, a) : a \in S}
    IN  IF next = S THEN S ELSE Reach(h, next)

\* mark_roots: the stack slots and the values of globals
Roots ==
    {stack[i].v : i \in {j \in 1..Len(stack) : stack[j].t = "Obj"}}
        \cup {v.v : v \in {x \in {globals.entries[i].value : i \in 1..Len(globals.entries)} :
                              x.t = "Obj"}}

\* mark_object sets marked on the roots that are not marked yet and pushes
\* them on the grey stack
Greyed == {a \in Roots : ~heap[a].marked}
\* blacken_object visits a grey object and, recursively, the objects its
\* table values refer to; it sets no mark
Blackened == Reach(heap, Greyed)
\* the recursion of blacken_object does not end on a table that reaches itself
BlackenDiverges == \E a \in Blackened : a \in Reach(heap, Children(heap, a))
\* the tables whose entries blacken_object reads after sweep dropped them
BlackenDangling == {a \in Blackened : heap[a].kind = "Object" /\ heap[a].freed}

Marked(a) == heap[a].marked \/ a \in Roots

\* a sweep that also empties what the objects it keeps hold
sweep_heap_Emptying ==
    [a \in 1..Len(heap) |->
        IF \E i \in 1..Len(objects) : objects[i] = a
        THEN IF Marked(a) THEN [Zeroed EXCEPT !.kind = heap[a].kind, !.freed = FALSE]
             ELSE IF slow THEN Zeroed ELSE [heap[a] EXCEPT !.freed = TRUE]
        ELSE [heap[a] EXCEPT !.marked = Marked(a)]]
\* sweep: a marked object of the list is unmarked and stays, an unmarked
\* one is unlinked and dropped
sweep_heap ==
    [a \in 1..Len(heap) |->
        IF \E i \in 1..Len(objects) : objects[i] = a
        THEN IF Marked(a) THEN [heap[a] EXCEPT !.marked = FALSE]
             ELSE IF slow THEN Zeroed ELSE [heap[a] EXCEPT !.freed = TRUE]
        ELSE [heap[a] EXCEPT !.marked = Marked(a)]]
sweep_objects == SelectSeq(objects, Marked)

CanCollect == status \in {"compiled", "Ok"}

Collect ==
    /\ CanCollect
    /\ IF BlackenDiverges
       THEN status' = "crash" /\ UNCHANGED <<heap, objects>>
       ELSE heap' = sweep_heap /\ objects' = sweep_objects /\ UNCHANGED status
    /\ collected' = TRUE
    /\ UNCHANGED <<prog, pending, meta, chunk, ip, stack, globals, err, out, owner,
                   entryDepth, defined, slow, tvars, fvars>>

CollectUseAfterFree ==
    /\ CanCollect
    /\ BlackenDangling # {}
    /\ status' = "crash"
    /\ UNCHANGED <<prog, pending, meta, chunk, ip, stack, globals, heap, objects, err, out,
                   owner, entryDepth, defined, slow, collected, tvars, fvars>>

\* With gc-debug-super-slow sweep drops an unmarked object with
\* drop_in_place and then assigns mem::zeroed() to it, which drops it a
\* second time: the sweep either goes on, leaving Zeroed, or faults.  It
\* sweeps in collect(), in every alloc of run() (the new object is not on
\* the stack yet) and in every alloc of a compilation.
SweepDoubleDrop ==
    /\ slow
    /\ \/ CanCollect /\ \E i \in 1..Len(objects) : ~Marked(objects[i])
       \/ At(OpNewObject)
       \/ At(OpAdd) /\ Depth >= 2 /\ Value_add(heap, Peek(1), Peek(0)).obj # NoObj
       \/ status = "new"
    /\ status' = "crash"
    /\ UNCHANGED <<prog, pending, meta, chunk, ip, stack, globals, heap, objects, err, out,
                   owner, entryDepth, defined, slow, collected, tvars, fvars>>

\* the objects an instruction dereferences
ObjOf(vs) == {v.v : v \in {x \in vs : x.t = "Obj"}}
Touches ==
    CASE Instr = OpPrint /\ Depth >= 1 -> Reach(heap, ObjOf({Peek(0)}))
      [] Instr = OpAdd /\ Depth >= 2 -> ObjOf({Peek(0), Peek(1)})
      [] Instr = OpObjectSet /\ Depth >= 2 ->
            ObjOf({Peek(1)}) \cup
                (IF IsString(heap, Peek(1)) /\ Depth >= 3 THEN ObjOf({Peek(2)}) ELSE {})
      [] Instr \in {OpDefineGlobal, OpGetGlobal, OpSetGlobal} /\ HasConstant ->
            ObjOf({ReadConstant})
      [] OTHER -> {}

ExecUseAfterFree ==
    /\ Running
    /\ \E a \in Touches : heap[a].freed
    /\ Apply([Same EXCEPT !.status = "crash"])

(***************************************************************************)
(* The programs.  A program is either statements for Compiler::compile or  *)
(* a chunk built with Chunk::write and Chunk::add_constant, with the       *)
(* strings allocated for its constants.                                    *)
(***************************************************************************)
Ast(body) == [src |-> "ast", stmts |-> body, code |-> << >>, constants |-> << >>, objs |-> << >>]
Built(code, constants, objs) ==
    [src |-> "chunk", stmts |-> << >>, code |-> code, constants |-> constants, objs |-> objs]

Conds == {EBool(TRUE), EBool(FALSE), EReal(0), EReal(1), EString("a")}
Bodies == {SPrint(EReal(1)), SExpr(EReal(1)), SVar("a", EReal(1)), SBlock(<<SVar("a", EReal(1))>>)}
Elses == {SNone, SPrint(EReal(2)), SVar("b", EReal(2))}

IfPrograms ==
    {Ast(<<SIf(c, b, e)>>) : c \in Conds, b \in Bodies, e \in Elses}
        \cup {Ast(<<SBlock(<<SIf(c, b, e), SVar("z", EReal(3)), SPrint(EVar("z"))>>)>>) :
                 c \in Conds, b \in Bodies, e \in Elses}
WhilePrograms ==
    {Ast(<<SWhile(c, b)>>) : c \in Conds, b \in Bodies}
        \cup {Ast(<<SBlock(<<SWhile(c, b)>>)>>) : c \in Conds, b \in Bodies}

AstPrograms ==
    { Ast(<<SPrint(EReal(1)), SPrint(EReal(1))>>),
      Ast(<<SPrint(EString("a")), SPrint(EString("a"))>>),
      Ast(<<SVar("a", EReal(1)), SPrint(EVar("a")), SExpr(EAssign("a", EReal(2))),
            SPrint(EVar("a"))>>),
      Ast(<<SVar("a", EReal(1)), SVar("d", EReal(2)), SExpr(EAssign("a", EReal(2))),
            SExpr(EAssign("d", EReal(0))), SPrint(EVar("a")), SPrint(EVar("d"))>>),
      Ast(<<SVar("b", EReal(1)), SVar("x", EReal(2)), SPrint(EVar("b"))>>),
      Ast(<<SVar("b", EReal(1)), SExpr(EAssign("x", EReal(2))), SPrint(EVar("b")),
            SPrint(EVar("x"))>>),
      Ast(<<SVar("a", EReal(1)), SExpr(EAssign("u", EReal(2))), SPrint(EVar("a")),
            SPrint(EVar("u"))>>),
      Ast(<<SPrint(EVar("u")), SPrint(EReal(1))>>),
      Ast(<<SExpr(EAssign("u", EReal(1))), SPrint(EReal(1))>>),
      Ast(<<SPrint(EUn("Negate", EBool(TRUE))), SPrint(EReal(1))>>),
      Ast(<<SPrint(EUn("Not", EReal(1))), SPrint(EReal(1))>>),
      Ast(<<SPrint(EUn("Not", EBool(TRUE))), SPrint(EUn("Negate", EReal(1)))>>),
      Ast(<<SPrint(EBin("Add", EBool(TRUE), EReal(1))), SPrint(EReal(1))>>),
      Ast(<<SPrint(EBin("Add", EString("a"), EReal(1)))>>),
      Ast(<<SPrint(EBin("Add", EString("a"), EObject(<< >>)))>>),
      Ast(<<SPrint(EBin("Add", EBin("Add", EString("a"), EString("b")), EString("c"))),
            SPrint(EBin("Add", EString("a"), EBool(TRUE))),
            SPrint(EBin("Add", EString("a"), EBool(FALSE)))>>),
      Ast(<<SPrint(EBin("Add", EReal(1), EBool(TRUE))), SExpr(EBin("Subtract", EReal(2), EBool(FALSE))),
            SExpr(EBin("Multiply", EReal(2), EBool(TRUE))),
            SPrint(EBin("Divide", EReal(2), EBool(TRUE)))>>),
      Ast(<<SPrint(EBin("Subtract", EBool(TRUE), EBool(TRUE)))>>),
      Ast(<<SPrint(EBin("Multiply", EBool(FALSE), EReal(2)))>>),
      Ast(<<SPrint(EBin("Divide", EBool(TRUE), EReal(1)))>>),
      Ast(<<SPrint(EBin("Subtract", EBin("Add", EReal(1), EBin("Multiply", EReal(2), EReal(3))),
                        EBin("Divide", EReal(4), EReal(2))))>>),
      Ast(<<SPrint(EBin("Greater", EReal(1), EReal(2)))>>),
      Ast(<<SVar("i", EReal(0)),
            SWhile(EBin("Less", EVar("i"), EReal(2)),
                   SBlock(<<SPrint(EVar("i")),
                            SExpr(EAssign("i", EBin("Add", EVar("i"), EReal(1))))>>))>>),
      Ast(<<SPrint(EBin("And", EBool(TRUE), EReal(1))), SPrint(EBin("Or", EBool(FALSE), EReal(1)))>>),
      Ast(<<SPrint(ENull)>>),
      Ast(<<SVar("o", EObject(<< <<"a", EString("s")>> >>)), SPrint(EVar("o"))>>),
      Ast(<<SVar("o", EObject(<< <<"a", EObject(<< <<"b", EReal(1)>> >>)>> >>))>>),
      Ast(<<SBlock(<<SVar("a", EReal(1)),
                     SBlock(<<SVar("a", EReal(2)), SPrint(EVar("a")),
                              SExpr(EAssign("a", EReal(3)))>>),
                     SPrint(EVar("a"))>>)>>),
      Ast(<<SBlock(<<SVar("a", EVar("u")), SVar("b", EReal(2)), SPrint(EVar("b"))>>)>>),
      Ast(<<SBlock(<<SVar("a", EReal(1)), SVar("a", EReal(2)), SPrint(EVar("a"))>>)>>),
      Ast(<<SBlock(<<SVar("a", EReal(1)),
                     SBlock(<<SVar("b", EReal(2))>>),
                     SBlock(<<SVar("b", EReal(3)), SPrint(EVar("b"))>>),
                     SVar("b", EReal(4)), SPrint(EVar("b")), SPrint(EVar("a"))>>)>>),
      Ast(<<SBlock(<<SVar("a", EReal(1)),
                     SBlock(<<SVar("a", EVar("a")), SPrint(EVar("a")), SVar("a", EReal(3))>>)>>)>>),
      Ast(<<SBlock(<<SVar("i", EBool(FALSE)),
                     SWhile(EUn("Not", EVar("i")), SExpr(EAssign("i", EBool(TRUE))))>>)>>) }

BuiltPrograms ==
    { \* JumpIfFalse on Null
      Built(<<OpConstant, 0, OpJumpIfFalse, 0, 0, 0, 9, OpPop, OpReturn, OpPop, OpReturn>>,
            <<Null>>, << >>),
      \* a global name constant that is not a string
      Built(<<OpConstant, 0, OpDefineGlobal, 0, OpGetGlobal, 0, OpSetGlobal, 0, OpReturn>>,
            <<Real(1)>>, << >>),
      \* ObjectSet with a key that is not a string
      Built(<<OpNewObject, OpConstant, 0, OpConstant, 0, OpObjectSet, OpReturn>>,
            <<Real(1)>>, << >>),
      \* ObjectSet on a target that is not a table
      Built(<<OpConstant, 1, OpConstant, 0, OpConstant, 1, OpObjectSet, OpReturn>>,
            <<ObjRef(1), Real(1)>>, <<"a">>),
      \* a string and Null added
      Built(<<OpConstant, 0, OpConstant, 1, OpAdd, OpPrint, OpReturn>>,
            <<ObjRef(1), Null>>, <<"a">>),
      \* a table that holds itself
      Built(<<OpNewObject, OpConstant, 0, OpGetLocal, 0, OpObjectSet, OpDefineGlobal, 0,
              OpReturn>>,
            <<ObjRef(1)>>, <<"a">>) }

\* one constant more than a one-byte operand can index: 32 statements
\* that each add up 8 literals, then a 257th literal, printed
RECURSIVE SumOf(_, _)
SumOf(from, n) == IF n = 1 THEN EReal(from) ELSE EBin("Add", SumOf(from, n - 1), EReal(from + n - 1))
ConstantsProgram ==
    Ast([i \in 1..33 |->
            IF i < 33 THEN SExpr(SumOf(8 * (i - 1) + 1, 8)) ELSE SPrint(EReal(U8_MAX + 2))])

\* a block of n locals of different names; the last of the first U8_MAX + 1
\* is printed once it is declared
LocalName(i) == "v" \o ToString(i)
LocalsProgram(n) ==
    Ast(<<SBlock([i \in 1..n + 1 |->
                     IF i <= U8_MAX + 1 THEN SVar(LocalName(i), EBool(TRUE))
                     ELSE IF i = U8_MAX + 2 THEN SPrint(EVar(LocalName(U8_MAX + 1)))
                     ELSE SVar(LocalName(i - 1), EBool(TRUE))])>>)

\* { var x = 0; print l && (x = 2); print x; } and the same with ||
ShortLefts == {EBool(TRUE), EBool(FALSE), EReal(0), EReal(1)}
ShortCircuit(op, l) ==
    Ast(<<SBlock(<<SVar("x", EReal(0)), SPrint(EBin(op, l, EAssign("x", EReal(2)))),
                   SPrint(EVar("x"))>>)>>)
\* { var q = 0; { if (c) var a = 1; } }
NestedBranch(c) ==
    Ast(<<SBlock(<<SVar("q", EReal(0)), SBlock(<<SIf(c, SVar("a", EReal(1)), SNone)>>)>>)>>)
\* print { .. }; print 1; for { a = 1, b = 2 } (tests::objects), literals
\* that repeat a key, and one whose keys b and x have one hash
ObjectLiterals ==
    { << <<"a", EReal(1)>>, <<"b", EReal(2)>> >>,
      << <<"a", EReal(1)>>, <<"a", EReal(2)>> >>,
      << <<"a", EReal(1)>>, <<"c", EReal(2)>>, <<"a", EReal(3)>> >>,
      << <<"b", EReal(1)>>, <<"x", EReal(2)>> >> }
ObjectProgram(fields) == Ast(<<SPrint(EObject(fields)), SPrint(EReal(1))>>)
ObjectPrograms == {ObjectProgram(fields) : fields \in ObjectLiterals}
\* print l; for the literals, and var a; print a; as var_decl gives it
Literals == {EReal(1), EBool(TRUE), EBool(FALSE), ENull, EString("a")}
LiteralPrograms == {Ast(<<SPrint(l)>>) : l \in Literals}
BareVar == Ast(<<SVar("a", ENull), SPrint(EVar("a"))>>)
\* the expression e with its token on line n
OnLine(e, n) == [x \in DOMAIN e \cup {"line"} |-> IF x = "line" THEN n ELSE e[x]]
\* print 1; and print 2; on two lines
TwoLines == Ast(<<SPrint(EReal(1)), SPrint(OnLine(EReal(2), 2))>>)
\* print a; and print -b; on two lines, and print !a; print "s"; on lines 2 and 3
TwoLinesOfNames ==
    Ast(<<SPrint(EVar("a")), SPrint(OnLine(EUn("Negate", OnLine(EVar("b"), 2)), 2))>>)
LaterLines ==
    Ast(<<SPrint(OnLine(EUn("Not", OnLine(EVar("a"), 2)), 2)), SPrint(OnLine(EString("s"), 3))>>)
LinePrograms == {TwoLines, TwoLinesOfNames, LaterLines}
ShortPrograms == {ShortCircuit(op, l) : op \in {"And", "Or"}, l \in ShortLefts}

Programs ==
    ShortPrograms \cup ObjectPrograms \cup LinePrograms \cup LiteralPrograms \cup {BareVar}
        \cup {NestedBranch(EBool(b)) : b \in BOOLEAN} \cup IfPrograms
        \cup WhilePrograms \cup AstPrograms \cup BuiltPrograms \cup {ConstantsProgram}
        \cup {LocalsProgram(U8_MAX + 1), LocalsProgram(U8_MAX + 2)}

RECURSIVE StringObjs(_, _)
StringObjs(names, i) ==
    IF i > Len(names) THEN << >> ELSE <<StringObj(names[i])>> \o StringObjs(names, i + 1)

\* the compiler state that produced the chunk of program p
Compiling(p) ==
    IF p.src = "ast" THEN Compiler_compile(p.stmts, Len(heap))
    ELSE [Compiler_new(Len(heap)) EXCEPT
             !.code = p.code, !.constants = p.constants, !.allocs = p.objs,
             !.lines = [i \in 1..Len(p.code) |-> 1], !.exp = [i \in 1..Len(p.code) |-> 0]]

\* the chunk and what the properties read is kept, the strings are allocated
Compiled(cs, st) ==
    /\ pending' = [code |-> cs.code, constants |-> cs.constants, lines |-> cs.lines]
    /\ meta' = [stmts |-> cs.stmts, decls |-> cs.decls, refs |-> cs.refs, uses |-> cs.uses,
                exp |-> cs.exp]
    /\ heap' = st.heap
    /\ objects' = st.objects
    /\ status' = IF cs.panic # "" THEN "panic" ELSE "compiled"

Allocated(cs) == alloc_all([heap |-> heap, objects |-> objects], StringObjs(cs.allocs, 1), 1)
CompiledFrom(cs) == Compiled(cs, Allocated(cs))

\* Compiler::compile(stmts, &vm), or the chunk built by hand
VMCompile(p) ==
    /\ status = "new"
    /\ prog' = p
    /\ CompiledFrom(Compiling(p))
    /\ UNCHANGED <<chunk, ip, stack, globals, err, out, defined, slow, collected, tvars, fvars>>
    /\ Tracked(0)

\* VM::interpret up to the first instruction of run()
VMInterpret ==
    /\ status = "compiled"
    /\ chunk' = pending
    /\ ip' = 0
    /\ status' = "running"
    /\ UNCHANGED <<prog, pending, meta, stack, globals, heap, objects, err, out, defined,
                   slow, collected, tvars, fvars>>
    /\ Tracked(0)

VMNext ==
    \/ \E p \in Programs : VMCompile(p)
    \/ VMInterpret
    \/ ExecReturn
    \/ ExecConstant
    \/ ExecNegate
    \/ ExecNot
    \/ ExecAdd
    \/ ExecSub
    \/ ExecMul
    \/ ExecDiv
    \/ ExecPop
    \/ ExecPrint
    \/ ExecNewObject
    \/ ExecObjectSet
    \/ ExecDefineGlobal
    \/ ExecGetGlobal
    \/ ExecSetGlobal
    \/ ExecGetLocal
    \/ ExecSetLocal
    \/ ExecJumpIfFalse
    \/ ExecJump
    \/ ExecUnimplemented
    \/ ExecUseAfterFree
    \/ Collect
    \/ CollectUseAfterFree
    \/ SweepDoubleDrop

(***************************************************************************)
(* Tokenizer (src/src/parser/tokenizer.rs).  The source is a sequence of   *)
(* characters, each a string of length one; position p of the code is      *)
(* index p + 1 here.  A token is its kind, start, length and line.  The    *)
(* operators read the variable source and take the position as argument.   *)
(* Alphabetic holds the letters the sources use.                           *)
(***************************************************************************)
NoChar == ""
Alphabetic ==
    {"a", "b", "c", "d", "e", "f", "g", "h", "i", "j", "k", "l", "m", "n", "o", "p", "q", "r",
     "s", "t", "u", "v", "w", "x", "y", "z"}
Digits == {"0", "1", "2", "3", "4", "5", "6", "7", "8", "9"}
Whitespace == {" ", "\n", "\t"}

\* the characters of a sequence as one string
RECURSIVE Join(_)
Join(chars) == IF chars = << >> THEN "" ELSE Head(chars) \o Join(Tail(chars))

Tokenizer_new == [start |-> 0, current |-> 0, line |-> 1, done |-> FALSE]

Tokenizer_at_end(cur) == cur >= Len(source)
Tokenizer_peek(cur) == IF cur >= Len(source) THEN NoChar ELSE source[cur + 1]
Tokenizer_peek_next(cur) == IF cur + 1 >= Len(source) THEN NoChar ELSE source[cur + 2]
\* mtch: the position afterwards
Tokenizer_mtch(cur, expected) == IF Tokenizer_peek(cur) = expected THEN cur + 1 ELSE cur

\* while peek is in S: advance
RECURSIVE ScanWhile(_, _)
ScanWhile(cur, S) == IF Tokenizer_peek(cur) \in S THEN ScanWhile(cur + 1, S) ELSE cur

\* what a scan returns: the token kind or the error, the positions, the line;
\* panic is the index out of bounds of advance()
Scanned(kind, start, cur, line) ==
    [ok |-> TRUE, panic |-> FALSE, kind |-> kind, start |-> start, current |-> cur,
     line |-> line]
ScanErr(kind, start, cur, line) == [Scanned(kind, start, cur, line) EXCEPT !.ok = FALSE]
ScanPanic(start, cur, line) ==
    [ScanErr("index out of bounds", start, cur, line) EXCEPT !.panic = TRUE]

\* the two inner loops of skip_whitespace
RECURSIVE line_comment(_)
line_comment(cur) ==
    IF Tokenizer_peek(cur) \in {NoChar, "\n"} THEN cur ELSE line_comment(cur + 1)
RECURSIVE block_comment(_)
block_comment(cur) ==
    IF Tokenizer_peek(cur) \notin {NoChar, "*"} /\ Tokenizer_peek_next(cur) \notin {NoChar, "/"}
    THEN block_comment(cur + 1) ELSE cur

RECURSIVE skip_whitespace(_, _)
\* the end of one round of the loop: if !at_end { advance }
skip_next(cur, line) ==
    skip_whitespace(IF Tokenizer_at_end(cur) THEN cur ELSE cur + 1, line)
\* after the two advances over the opener of a block comment and the inner
\* loop, which stopped at cur: the advance over what should be the star
skip_block(cur, line) ==
    IF Tokenizer_at_end(cur) THEN ScanPanic(cur, cur + 1, line) ELSE skip_next(cur + 1, line)
\* one round with the line already counted
skip_round(cur, line) ==
    IF Tokenizer_peek(cur) = "/" /\ Tokenizer_peek_next(cur) = "/"
    THEN skip_next(line_comment(cur), line)
    ELSE IF Tokenizer_peek(cur) = "/" /\ Tokenizer_peek_next(cur) = "*"
    THEN skip_block(block_comment(cur + 2), line)
    ELSE IF Tokenizer_peek(cur) = "/" THEN Scanned("", cur, cur, line)
    ELSE skip_next(cur, line)
skip_whitespace(cur, line) ==
    IF Tokenizer_peek(cur) \notin Whitespace \cup {"/"} THEN Scanned("", cur, cur, line)
    ELSE skip_round(cur, IF Tokenizer_peek(cur) = "\n" THEN line + 1 ELSE line)

\* number(), entered after the first character and mtch('=')
number_fraction(cur) ==
    IF Tokenizer_peek(cur) = "." /\ Tokenizer_peek_next(cur) \in Digits
    THEN ScanWhile(cur + 1, Digits) ELSE cur
number(cur) == number_fraction(ScanWhile(cur, Digits))

\* string(), entered after the opening quote and mtch('=')
RECURSIVE string(_, _, _)
string(start, cur, line) ==
    IF Tokenizer_peek(cur) # "\"" /\ ~Tokenizer_at_end(cur)
    THEN string(start, cur + 1, IF Tokenizer_peek(cur) = "\n" THEN line + 1 ELSE line)
    ELSE IF Tokenizer_at_end(cur) THEN ScanErr("UnterminatedString", start, cur, line)
    ELSE Scanned("String", start, cur + 1, line)

\* the keyword table of identifier()
Keyword(ident) ==
    CASE ident = "class" -> "Class"
      [] ident = "else" -> "Else"
      [] ident = "if" -> "If"
      [] ident = "null" -> "Null"
      [] ident = "print" -> "Print"
      [] ident = "return" -> "Return"
      [] ident = "super" -> "Super"
      [] ident = "var" -> "Var"
      [] ident = "while" -> "While"
      [] ident = "false" -> "False"
      [] ident = "for" -> "For"
      [] ident = "fn" -> "Fn"
      [] ident = "this" -> "This"
      [] ident = "true" -> "True"
      [] OTHER -> "Identifier"
\* identifier(), from the end of the scan
identifier(start, cur, line) ==
    Scanned(Keyword(Join(SubSeq(source, start + 1, cur))), start, cur, line)

\* the match on c of next_token; cur is the position after mtch('=')
Punctuation(c, eqm) ==
    CASE c = "(" -> "LParen"
      [] c = ")" -> "RParen"
      [] c = "{" -> "LBrace"
      [] c = "}" -> "RBrace"
      [] c = ";" -> "Semicolon"
      [] c = "," -> "Comma"
      [] c = "." -> "Dot"
      [] c = "-" -> IF eqm THEN "MinusEqual" ELSE "Minus"
      [] c = "+" -> IF eqm THEN "PlusEqual" ELSE "Plus"
      [] c = "/" -> "Slash"
      [] c = "*" -> "Star"
      [] c = "!" -> IF eqm THEN "BangEqual" ELSE "Bang"
      [] c = "=" -> IF eqm THEN "EqualEqual" ELSE "Equal"
      [] c = "<" -> IF eqm THEN "LessEqual" ELSE "Less"
      [] c = ">" -> IF eqm THEN "GreaterEqual" ELSE "Greater"
      [] OTHER -> "UnexpectedCharacter"
match_char(start, c, cur, line) ==
    IF c = "&"
    THEN Scanned(IF Tokenizer_peek(cur) = "&" THEN "And" ELSE "BitwiseAnd", start,
                 Tokenizer_mtch(cur, "&"), line)
    ELSE IF c = "|"
    THEN Scanned(IF Tokenizer_peek(cur) = "|" THEN "Or" ELSE "BitwiseOr", start,
                 Tokenizer_mtch(cur, "|"), line)
    ELSE IF c = "\"" THEN string(start, cur, line)
    ELSE IF c \in Digits THEN Scanned("Number", start, number(cur), line)
    ELSE IF Punctuation(c, cur > start + 1) = "UnexpectedCharacter"
    THEN ScanErr("UnexpectedCharacter", start, cur, line)
    ELSE Scanned(Punctuation(c, cur > start + 1), start, cur, line)

\* next_token from where skip_whitespace stopped
scan_token(sw) ==
    IF ~sw.ok THEN sw
    ELSE IF Tokenizer_at_end(sw.current) THEN Scanned("EOF", sw.current, sw.current, sw.line)
    ELSE IF source[sw.current + 1] \in Alphabetic
    THEN identifier(sw.current, ScanWhile(sw.current + 1, Alphabetic \cup Digits \cup {"_"}),
                    sw.line)
    ELSE match_char(sw.current, source[sw.current + 1],
                    Tokenizer_mtch(sw.current + 1, "="), sw.line)
next_token(tz) == scan_token(skip_whitespace(tz.current, tz.line))

\* new_token
Token(s) == [kind |-> s.kind, start |-> s.start, length |-> s.current - s.start, line |-> s.line]

(***************************************************************************)
(* Parser (src/src/parser/mod.rs, src/src/parser/stmt.rs).  The operators  *)
(* read the variables tokens and source and take Parser.current as         *)
(* argument.  Each returns a record: ok (Ok or Err), cur (Parser.current   *)
(* afterwards), e (the expression or statement of Ok), err (the            *)
(* ParserErrorType of Err, or "unimplemented" for the panic of             *)
(* unimplemented!()) and panic_mode (expression() has set the flag).       *)
(* ExprType::Identifier is the node the compiler matches as ExprType::Var. *)
(***************************************************************************)
Parser_new == [current |-> 0, panic_mode |-> FALSE]

Parser_peek(cur) == tokens[cur + 1]
Parser_prev(cur) == tokens[cur]
Parser_at_end(cur) == Parser_peek(cur).kind = "EOF"
\* check, for any of the kinds a call of mtch lists
Parser_check(cur, kinds) == ~Parser_at_end(cur) /\ Parser_peek(cur).kind \in kinds

\* source[token.start..=token.start + token.length - 1] collected into a String
TokenText(t) == Join(SubSeq(source, t.start + 1, t.start + t.length))

Parsed(cur, e) == [ok |-> TRUE, cur |-> cur, e |-> e, err |-> "", panic_mode |-> FALSE]
Failed(cur, kind) == [ok |-> FALSE, cur |-> cur, e |-> ENull, err |-> kind, panic_mode |-> FALSE]

\* str::parse::<f64> on the text of a Number token: the value, or -1 for Err.
\* A fraction that is not zero gives the real that is not an integer.
DigitValue(c) == CHOOSE n \in 0..9 : <<"0", "1", "2", "3", "4", "5", "6", "7", "8", "9">>[n + 1] = c
RECURSIVE DecimalValue(_, _)
DecimalValue(chars, acc) ==
    IF chars = << >> THEN acc ELSE DecimalValue(Tail(chars), 10 * acc + DigitValue(Head(chars)))
DotAt(chars) ==
    IF \E i \in 1..Len(chars) : chars[i] = "." THEN CHOOSE i \in 1..Len(chars) : chars[i] = "."
    ELSE Len(chars) + 1
parse_f64(chars) ==
    IF \E i \in 1..Len(chars) : chars[i] \notin Digits \cup {"."} THEN -1
    ELSE IF \A i \in DotAt(chars) + 1..Len(chars) : chars[i] = "0"
    THEN DecimalValue(SubSeq(chars, 1, DotAt(chars) - 1), 0)
    ELSE F64_NAN + 1

Unimplemented == [k |-> "unimplemented"]
binop(op, left, right) ==
    CASE op = "Plus" -> EBin("Add", left, right)
      [] op = "Minus" -> EBin("Subtract", left, right)
      [] op = "Star" -> EBin("Multiply", left, right)
      [] op = "Slash" -> EBin("Divide", left, right)
      [] OTHER -> Unimplemented
unop(op, inner) ==
    CASE op = "Minus" -> EUn("Negate", inner)
      [] op = "Bang" -> EUn("Not", inner)
      [] OTHER -> Unimplemented

\* the operators the loop of each binary level matches
LevelOps(level) ==
    CASE level = "equality" -> {"BangEqual", "EqualEqual"}
      [] level = "comparison" -> {"Greater", "GreaterEqual", "Less", "LessEqual"}
      [] level = "term" -> {"Minus", "Plus"}
      [] level = "factor" -> {"Slash", "Star"}

RECURSIVE expression(_)
RECURSIVE assignment(_)
RECURSIVE equality(_)
RECURSIVE comparison(_)
RECURSIVE term(_)
RECURSIVE factor(_)
RECURSIVE unary(_)
RECURSIVE primary(_)
RECURSIVE object(_, _)
RECURSIVE level_loop(_, _)

\* the Number arm of primary after the token
number_literal(cur, value) ==
    IF Parser_check(cur, {"Dot"}) THEN Failed(cur + 1, "RealParseFailed")
    ELSE IF value = -1 THEN Failed(cur, "RealParseFailed")
    ELSE Parsed(cur, EReal(value))
\* the String arm of primary after the token
string_literal(cur, a) ==
    IF Parser_check(cur, {"Dot"}) THEN Failed(cur + 1, "RealParseFailed")
    ELSE Parsed(cur, EString(a))
\* the LParen arm of primary after expression()
grouping(r) ==
    IF ~r.ok THEN r
    ELSE IF Parser_peek(r.cur).kind = "RParen" THEN Parsed(r.cur + 1, EUn("Grouping", r.e))
    ELSE Failed(r.cur, "UnclosedParentheses")

\* object() after the value of a pair
object_pair(r, pairs) ==
    IF Parser_peek(r.cur).kind = "RBrace" THEN Parsed(r.cur + 1, EObject(pairs))
    ELSE IF Parser_peek(r.cur).kind = "Comma" THEN object(r.cur + 1, pairs)
    ELSE Failed(r.cur, "UnclosedObject")
object_value(key, r, pairs) ==
    IF ~r.ok THEN r ELSE object_pair(r, Append(pairs, <<key, r.e>>))
object(cur, pairs) ==
    IF Parser_peek(cur).kind # "Identifier" THEN Failed(cur, "ObjectNeedsIdentifierKeys")
    ELSE IF Parser_peek(cur + 1).kind # "Equal"
    THEN Failed(cur + 1, "ExpectEqualAfterIdentifierInObject")
    ELSE object_value(TokenText(Parser_peek(cur)), expression(cur + 2), pairs)

\* primary with the error of the grouping arm in its last line
primary_Unclosed(cur) ==
    IF Parser_check(cur, {"Identifier"})
    THEN Parsed(cur + 1, EVar(TokenText(Parser_peek(cur))))
    ELSE IF Parser_check(cur, {"False"}) THEN Parsed(cur + 1, EBool(FALSE))
    ELSE IF Parser_check(cur, {"True"}) THEN Parsed(cur + 1, EBool(TRUE))
    ELSE IF Parser_check(cur, {"Null"}) THEN Parsed(cur + 1, ENull)
    ELSE IF Parser_check(cur, {"Number"})
    THEN number_literal(cur + 1,
                        parse_f64(SubSeq(source, Parser_peek(cur).start + 1,
                                         Parser_peek(cur).start + Parser_peek(cur).length)))
    ELSE IF Parser_check(cur, {"String"})
    THEN string_literal(cur + 1, TokenText(Parser_peek(cur)))
    ELSE IF Parser_check(cur, {"LParen"}) THEN grouping(expression(cur + 1))
    ELSE IF Parser_check(cur, {"LBrace"}) THEN object(cur + 1, << >>)
    ELSE Failed(cur, "UnclosedParentheses")
primary(cur) ==
    IF Parser_check(cur, {"Identifier"})
    THEN Parsed(cur + 1, EVar(TokenText(Parser_peek(cur))))
    ELSE IF Parser_check(cur, {"False"}) THEN Parsed(cur + 1, EBool(FALSE))
    ELSE IF Parser_check(cur, {"True"}) THEN Parsed(cur + 1, EBool(TRUE))
    ELSE IF Parser_check(cur, {"Null"}) THEN Parsed(cur + 1, ENull)
    ELSE IF Parser_check(cur, {"Number"})
    THEN number_literal(cur + 1,
                        parse_f64(SubSeq(source, Parser_peek(cur).start + 1,
                                         Parser_peek(cur).start + Parser_peek(cur).length)))
    ELSE IF Parser_check(cur, {"String"})
    THEN string_literal(cur + 1, TokenText(Parser_peek(cur)))
    ELSE IF Parser_check(cur, {"LParen"}) THEN grouping(expression(cur + 1))
    ELSE IF Parser_check(cur, {"LBrace"}) THEN object(cur + 1, << >>)
    ELSE Failed(cur, "ExpectedExpression")

unary_inner(op, r) == IF ~r.ok THEN r ELSE Parsed(r.cur, unop(op, r.e))
unary(cur) ==
    IF Parser_check(cur, {"Bang", "Minus"})
    THEN unary_inner(Parser_peek(cur).kind, unary(cur + 1))
    ELSE primary(cur)

\* the operand of a binary level: the next tighter level
operand(level, cur) ==
    CASE level = "equality" -> comparison(cur)
      [] level = "comparison" -> term(cur)
      [] level = "term" -> factor(cur)
      [] level = "factor" -> unary(cur)
\* e = self.binop(op, e, right)
level_binop(level, e, r) ==
    IF e.k = "unimplemented" THEN Failed(r.cur, "unimplemented")
    ELSE level_loop(level, Parsed(r.cur, e))
level_right(level, op, l, r) ==
    IF ~r.ok THEN r ELSE level_binop(level, binop(op, l.e, r.e), r)
\* the loop with the rest of the chain parsed as the right operand
level_loop_RightFirst(level, l) ==
    IF ~l.ok \/ ~Parser_check(l.cur, LevelOps(level)) THEN l
    ELSE level_right(level, Parser_peek(l.cur).kind, l,
                     level_loop(level, operand(level, l.cur + 1)))
\* while self.mtch(..) of equality, comparison, term and factor
level_loop(level, l) ==
    IF ~l.ok \/ ~Parser_check(l.cur, LevelOps(level)) THEN l
    ELSE level_right(level, Parser_peek(l.cur).kind, l, operand(level, l.cur + 1))

factor(cur) == level_loop("factor", unary(cur))
term(cur) == level_loop("term", factor(cur))
comparison(cur) == level_loop("comparison", term(cur))
equality(cur) == level_loop("equality", comparison(cur))

assign_value(l, v) ==
    IF ~v.ok THEN v
    ELSE IF l.e.k = "Var" THEN Parsed(v.cur, EAssign(l.e.name, v.e))
    ELSE Failed(v.cur, "InvalidAssignmentTarget")
assign_target(l) ==
    IF ~l.ok \/ ~Parser_check(l.cur, {"Equal"}) THEN l
    ELSE assign_value(l, assignment(l.cur + 1))
assignment(cur) == assign_target(equality(cur))

set_panic_mode(r) ==
    IF r.ok \/ r.err = "unimplemented" THEN r ELSE [r EXCEPT !.panic_mode = TRUE]
expression(cur) == set_panic_mode(assignment(cur))

expect_semi(r, a) ==
    IF ~r.ok THEN r
    ELSE IF Parser_peek(r.cur).kind = "Semicolon" THEN Parsed(r.cur + 1, a)
    ELSE Failed(r.cur, "ExpectedSemicolon")

print_of(r) == expect_semi(r, SPrint(r.e))
print_statement(cur) == print_of(expression(cur))
expression_of(r) == expect_semi(r, SExpr(r.e))
expression_statement(cur) == expression_of(expression(cur))
statement(cur) ==
    IF Parser_check(cur, {"Print"}) THEN print_statement(cur + 1)
    ELSE expression_statement(cur)

var_of(name, r) == expect_semi(r, SVar(name, r.e))
var_decl(cur) ==
    IF Parser_peek(cur).kind # "Identifier" THEN Failed(cur, "ExpectVariableName")
    ELSE var_of(TokenText(Parser_peek(cur)),
                IF Parser_check(cur + 1, {"Equal"}) THEN expression(cur + 2)
                ELSE Parsed(cur + 1, ENull))
declaration(cur) ==
    IF Parser_check(cur, {"Var"}) THEN var_decl(cur + 1) ELSE statement(cur)

\* the kinds at which synchronize stops
StatementStart == {"Class", "Fn", "Var", "For", "If", "While", "Print", "Return"}
RECURSIVE synchronize(_)
synchronize(cur) ==
    IF Parser_peek(cur).kind = "EOF" THEN cur
    ELSE IF cur > 0 /\ Parser_prev(cur).kind = "Semicolon" THEN cur
    ELSE IF Parser_peek(cur).kind \in StatementStart THEN cur
    ELSE synchronize(cur + 1)

\* Parser.current after one round of the loop of Stmt::parse on r, the
\* result of declaration()
resume(r) == IF r.ok \/ r.err = "unimplemented" THEN r.cur ELSE synchronize(r.cur)

(***************************************************************************)
(* The sources read by SpecParse: every sequence of at most MaxTokens      *)
(* lexemes of LexKinds, separated by blanks, and a few texts with what the *)
(* lexemes lack (objects, comments, fractions, characters no token begins  *)
(* with).                                                                  *)
(***************************************************************************)
Lexeme(kind) ==
    CASE kind = "Number" -> <<"1">>
      [] kind = "Identifier" -> <<"a">>
      [] kind = "String" -> <<"\"", "s", "\"">>
      [] kind = "Plus" -> <<"+">>
      [] kind = "Bang" -> <<"!">>
      [] kind = "Equal" -> <<"=">>
      [] kind = "Semicolon" -> <<";">>
      [] kind = "LParen" -> <<"(">>
      [] kind = "RParen" -> <<")">>
      [] kind = "Print" -> <<"p", "r", "i", "n", "t">>
      [] kind = "Var" -> <<"v", "a", "r">>
      [] kind = "If" -> <<"i", "f">>
LexKinds ==
    {"Number", "Identifier", "String", "Plus", "Bang", "Equal", "Semicolon", "LParen", "RParen",
     "Print", "Var", "If"}
RECURSIVE Unlex(_, _)
Unlex(kinds, i) ==
    IF i > Len(kinds) THEN << >>
    ELSE IF i = Len(kinds) THEN Lexeme(kinds[i])
    ELSE Lexeme(kinds[i]) \o <<" ">> \o Unlex(kinds, i + 1)
KindSeqs == UNION {[1..n -> LexKinds] : n \in 0..MaxTokens}

\* print "hello, " + "world";
HelloWorld ==
    <<"p", "r", "i", "n", "t", " ", "\"", "h", "e", "l", "l", "o", ",", " ", "\"", " ",
      "+", " ", "\"", "w", "o", "r", "l", "d", "\"", ";">>
\* var o = {a = 1, b = "s"};
ObjectSource ==
    <<"v", "a", "r", " ", "o", " ", "=", " ", "{", "a", " ", "=", " ", "1", ",", " ", "b",
      " ", "=", " ", "\"", "s", "\"", "}", ";">>
\* print 1 == 2;
EqualitySource ==
    <<"p", "r", "i", "n", "t", " ", "1", " ", "=", "=", " ", "2", ";">>
\* x = 1.5; // c\nprint (x);
CommentSource ==
    <<"x", " ", "=", " ", "1", ".", "5", ";", " ", "/", "/", " ", "c", "\n", "p", "r", "i",
      "n", "t", " ", "(", "x", ")", ";">>
\* /* c */ print -1 * 20 / true;
BlockCommentSource ==
    <<"/", "*", " ", "c", " ", "*", "/", " ", "p", "r", "i", "n", "t", " ", "-", "1", " ",
      "*", " ", "2", "0", " ", "/", " ", "t", "r", "u", "e", ";">>
\* print @;
UnexpectedSource ==
    <<"p", "r", "i", "n", "t", " ", "@", ";">>
\* print "s;
UnterminatedSource ==
    <<"p", "r", "i", "n", "t", " ", "\"", "s", ";">>
\* 1; /*
OpenCommentSource ==
    <<"1", ";", " ", "/", "*">>
\* 1; // c
OpenLineSource ==
    <<"1", ";", " ", "/", "/", " ", "c">>
\* 1; /* c
OpenTextSource ==
    <<"1", ";", " ", "/", "*", " ", "c">>
\* (1 + 1) - (2 / (3 * 2));
BinopsSource ==
    <<"(", "1", " ", "+", " ", "1", ")", " ", "-", " ", "(", "2", " ", "/", " ", "(", "3",
      " ", "*", " ", "2", ")", ")", ";">>
\* 1 op1 2 op2 3; for every two binary operators
BinaryOps == {"+", "-", "*", "/"}
ChainSource(op1, op2) == <<"1", " ", op1, " ", "2", " ", op2, " ", "3", ";">>
ChainSources == {ChainSource(op1, op2) : op1, op2 \in BinaryOps}
\* a = !false; 1=2;
NumberEqualSource ==
    <<"a", " ", "=", " ", "!", "f", "a", "l", "s", "e", ";", " ", "1", "=", "2", ";">>

\* 1==2 and )=
NumberEqualsNumber == <<"1", "=", "=", "2">>
ParenEqual == <<")", "=">>

HandSources ==
    {NumberEqualsNumber, ParenEqual, HelloWorld, ObjectSource, EqualitySource, CommentSource,
     BlockCommentSource, UnexpectedSource, UnterminatedSource, OpenCommentSource,
     OpenLineSource, OpenTextSource, NumberEqualSource, BinopsSource} \cup ChainSources
Sources == {Unlex(kinds, 1) : kinds \in KindSeqs} \cup HandSources

(***************************************************************************)
(* The front end as main runs it: the tokenizer is iterated to the EOF     *)
(* token (an Err is unwrapped, which panics), then Stmt::parse loops over  *)
(* declaration() and synchronize().  fstatus is tokenizing, parsing,       *)
(* parsed or panic.  MaxErrors caps the errors Stmt::parse collects.       *)
(***************************************************************************)
FrontInit(S) ==
    /\ source \in S
    /\ tokenizer = Tokenizer_new
    /\ tokens = << >>
    /\ parser = Parser_new
    /\ stmts = << >>
    /\ errors = << >>
    /\ fstatus = "tokenizing"

\* Iterator::next of the tokenizer and the unwrap of main
Lexed(s) ==
    /\ tokenizer' = [start |-> s.start, current |-> s.current, line |-> s.line,
                     done |-> ~s.panic /\ (~s.ok \/ s.kind = "EOF")]
    /\ tokens' = IF s.ok THEN Append(tokens, Token(s)) ELSE tokens
    /\ fstatus' = IF ~s.ok THEN "panic" ELSE IF s.kind = "EOF" THEN "parsing" ELSE "tokenizing"
NextToken ==
    /\ fstatus = "tokenizing"
    /\ Lexed(next_token(tokenizer))
    /\ UNCHANGED <<source, parser, stmts, errors, tvars, vmvars>>

\* one round of the loop of Stmt::parse on r, the result of declaration()
Declared(r) ==
    /\ parser' = [current |-> resume(r),
                  panic_mode |-> (r.ok \/ r.err = "unimplemented") /\ parser.panic_mode]
    /\ stmts' = IF r.ok THEN Append(stmts, r.e) ELSE stmts
    /\ errors' = IF r.ok \/ r.err = "unimplemented" THEN errors ELSE Append(errors, r.err)
    /\ fstatus' = IF ~r.ok /\ r.err = "unimplemented" THEN "panic" ELSE "parsing"
ParseStep ==
    /\ fstatus = "parsing"
    /\ ~Parser_at_end(parser.current)
    /\ Len(errors) < MaxErrors
    /\ Declared(declaration(parser.current))
    /\ UNCHANGED <<source, tokenizer, tokens, tvars, vmvars>>

\* the loop of Stmt::parse ends and (stmts, errors) is returned
ParseReturn ==
    /\ fstatus = "parsing"
    /\ Parser_at_end(parser.current)
    /\ fstatus' = "parsed"
    /\ UNCHANGED <<source, tokenizer, tokens, parser, stmts, errors, tvars, vmvars>>

FrontNext ==
    \/ NextToken
    \/ ParseStep
    \/ ParseReturn

(***************************************************************************)
(* Specifications                                                          *)
(***************************************************************************)
\* the table alone, in the default build
Init == TableInit /\ VMInit /\ slow = FALSE /\ FrontInit({<< >>})
\* the VM in either build
BuildInit == TableInit /\ VMInit /\ slow \in BOOLEAN /\ FrontInit({<< >>})
\* the front end on the sources
ParseInit == TableInit /\ VMInit /\ slow = FALSE /\ FrontInit(Sources)

SpecTable == Init /\ [][TableNext]_vars
SpecLoad == Init /\ [][LoadNext]_vars
Spec == BuildInit /\ [][VMNext]_vars
SpecParse == ParseInit /\ [][FrontNext]_vars

(***************************************************************************)
(* Claims about the hash table                                             *)
(***************************************************************************)
IsValue(x) == x.t \in {"Null", "Bool", "Real", "Obj"}
DistinctHashes(S) == \A p, q \in S : p # q => hash_bytes(p) # hash_bytes(q)
Occupied(t) == Cardinality({i \in 1..Len(t.entries) : t.entries[i] # EmptyEntry})
Tombstones(t) == {i \in 1..Len(t.entries) : t.entries[i] = TombstoneEntry}
Get(k) == HashTable_get(table, AnkokuString_new(k))

\* C4: over keys with pairwise distinct hashes, whatever sets and deletes came
\* before (growths and reused tombstones included), get(k) returns the value
\* of the latest set(k) that no delete(k) followed.
C4_GetReturnsLastSet ==
    DistinctHashes(used) =>
        \A k \in AllKeys : IsValue(shadow[k]) => Get(k) = shadow[k]

\* a table that grew past its first capacity, reused a tombstone, holds three
\* keys, and answered a get with a value
C4_Witness ==
    /\ DistinctHashes(used)
    /\ Len(table.entries) > MIN_CAPACITY
    /\ treused
    /\ Cardinality({k \in AllKeys : IsValue(shadow[k])}) >= 3
    /\ IsValue(got)

\* C5: after delete(k) of a present key, get(k) is missing until the next
\* set(k), and every other key that is in the table still returns its value.
C5_DeleteHidesOnlyItsKey ==
    /\ \A k \in AllKeys : shadow[k] = Deleted => Get(k) = Missing
    /\ \A j \in AllKeys : PresentIn(table, j) => Get(j) = shadow[j]

\* C5 on keys of pairwise distinct hashes: the tombstone keeps the probe chain
C5_DeleteOnDistinctHashes ==
    DistinctHashes(used) => C5_DeleteHidesOnlyItsKey

\* C6: keys of different bytes are different keys: get(k) is the value of the
\* latest set(k), or missing when k was never set or was deleted since,
\* whatever was done to keys of other bytes.
C6_KeysDifferByBytes ==
    \A k \in AllKeys :
        Get(k) = (IF IsValue(shadow[k]) THEN shadow[k] ELSE Missing)

C1_RuntimeErrorStopsRun == err # "none" => status = "RuntimeError"

\* C2: a JumpIfFalse step sets ip to its target exactly when the top of the
\* stack is Null or Bool(false), goes on to the next instruction for every
\* other value, and leaves the stack as it was.
C2_JumpIfFalseOnNullOrFalse ==
    [][At(OpJumpIfFalse) /\ HasCode(5) /\ Depth >= 1
          => /\ ip' = IF Peek(0) \in {Null, Bool(FALSE)} THEN ReadU32 ELSE ip + 5
             /\ stack' = stack]_vars

\* the objects of the list that are not freed
InList(objs, a) == \E i \in 1..Len(objs) : objs[i] = a
Contents(o) == [kind |-> o.kind, str |-> o.str, table |-> o.table]

\* C3: a collect() step keeps every object that was reachable from a stack
\* slot or a value of globals, directly or through table values: it is still
\* in the objects list, not freed, and holds what it held.
C3_CollectKeepsReachable ==
    [][Collect =>
          \A a \in Reach(heap, Roots) :
              InList(objects, a) /\ ~heap[a].freed
                  => /\ InList(objects', a)
                     /\ ~heap'[a].freed
                     /\ Contents(heap'[a]) = Contents(heap[a])]_vars

\* two constants the claim calls equal: the same Real or Bool, or two
\* strings of the same bytes
SameConstant(h, a, b) ==
    \/ a = b
    \/ /\ IsString(h, a) /\ IsString(h, b)
       /\ h[a.v].str.bytes = h[b.v].str.bytes

\* C8: the constant table of a compiled chunk holds no two equal constants.
C8_NoDuplicateConstants ==
    prog.src = "ast" /\ status # "panic"
        => \A i, j \in 1..Len(pending.constants) :
               i # j => ~SameConstant(heap, pending.constants[i], pending.constants[j])

\* C9: when a run that detected no error stands at the merge offset of an
\* if or while it entered, the stack is as deep as it was when the
\* statement was entered, before its condition.
C9_MergeDepth ==
    \A n \in 1..Len(entryDepth) :
        (/\ Running /\ err = "none" /\ meta.stmts[n].kind \in {"If", "While"}
         /\ ip = meta.stmts[n].end /\ entryDepth[n] # -1)
            => Depth = entryDepth[n]

\* C10: when a run that detected no error is about to execute a compiled
\* GetLocal s or SetLocal s, s is below the stack depth and stack[s] is the
\* slot of the declaration resolve_local found for the name.
C10_LocalSlot ==
    Running /\ err = "none" /\ prog.src = "ast" /\ Instr \in {OpGetLocal, OpSetLocal}
        => /\ Byte(1) < Depth
           /\ \E r \in meta.refs : r[1] = ip /\ owner[Byte(1) + 1] = r[2]

\* a var declaration that is the direct branch or body of an if / while
VarBranch(st) ==
    \/ st.k = "If" /\ (st.body.k = "Var" \/ st.else_body.k = "Var")
    \/ st.k = "While" /\ st.body.k = "Var"
\* a statement with such a statement in one of its blocks
RECURSIVE VarBranchIn(_)
VarBranchIn(st) ==
    CASE st.k = "Block" ->
            \E i \in 1..Len(st.body) : VarBranch(st.body[i]) \/ VarBranchIn(st.body[i])
      [] st.k = "If" -> VarBranchIn(st.body) \/ VarBranchIn(st.else_body)
      [] st.k = "While" -> VarBranchIn(st.body)
      [] OTHER -> FALSE
\* a program with such a statement in a block
HasVarBranch(p) ==
    p.src = "ast" /\ \E i \in 1..Len(p.stmts) : VarBranchIn(p.stmts[i])

\* The merge depth of C9 and the slots of C10 are as claimed in every run of
\* a program in which no var is the direct branch of an if / while in a block.
C9_MergeDepthWithoutVarBranch == ~HasVarBranch(prog) => C9_MergeDepth
C10_LocalSlotWithoutVarBranch == ~HasVarBranch(prog) => C10_LocalSlot

(***************************************************************************)
(* Claims about the layout of a compiled chunk                             *)
(***************************************************************************)
\* the operand bytes run() reads after an instruction byte
OperandBytes(op) ==
    IF op \in {OpJump, OpJumpIfFalse} THEN 4
    ELSE IF op \in {OpConstant, OpDefineGlobal, OpGetGlobal, OpSetGlobal, OpGetLocal, OpSetLocal}
    THEN 1 ELSE 0

\* the offset at which the instruction after the one at offset i starts,
\* the code length when there is none
NextInstr(code, i) ==
    IF i >= Len(code) \/ i + 1 + OperandBytes(code[i + 1]) > Len(code) THEN Len(code)
    ELSE i + 1 + OperandBytes(code[i + 1])

\* S holds the offsets reached from the first one in fewer than 2^k steps
\* of NextInstr and J is 2^k steps of NextInstr: all offsets reached
RECURSIVE Decoded(_, _, _)
Decoded(S, J, end) ==
    IF end \in S THEN S
    ELSE Decoded(S \cup {J[i] : i \in S}, [i \in DOMAIN J |-> J[J[i]]], end)

\* the offsets at which run(), decoding from offset i, finds an instruction
InstrStarts(code, i) ==
    Decoded({i}, [j \in 0..Len(code) |-> NextInstr(code, j)], Len(code)) \ {Len(code)}

\* the u32 read big-endian from the four bytes after offset i
OperandU32(code, i) ==
    code[i + 2] * 16777216 + code[i + 3] * 65536 + code[i + 4] * 256 + code[i + 5]

\* Compiler::compile has just returned its chunk, which is pending
Finished == prog.src = "ast" /\ status = "compiled"

JumpsAt(code) == {i \in InstrStarts(code, 0) : code[i + 1] \in {OpJump, OpJumpIfFalse}}

\* C11: in a compiled chunk the operand of every Jump and JumpIfFalse is an
\* offset below the code length at which an instruction starts and is not
\* the placeholder 0xFFFFFFFF, and the Jump that ends a while loop holds
\* the offset at which the loop condition starts.
C11_JumpTargets ==
    Finished =>
        /\ \A i \in JumpsAt(pending.code) :
              /\ i + 5 <= Len(pending.code)
              /\ \E k \in 2..5 : pending.code[i + k] # PLACEHOLDER
              /\ OperandU32(pending.code, i) < Len(pending.code)
              /\ OperandU32(pending.code, i) \in InstrStarts(pending.code, 0)
        /\ \A n \in 1..Len(meta.stmts) :
              meta.stmts[n].kind = "While" =>
                  /\ pending.code[meta.stmts[n].end - 5] = OpJump
                  /\ meta.stmts[n].end - 6 \in InstrStarts(pending.code, 0)
                  /\ OperandU32(pending.code, meta.stmts[n].end - 6) = meta.stmts[n].start
                  /\ meta.stmts[n].start \in InstrStarts(pending.code, 0)

\* a compiled chunk with a patched forward jump and the backward jump of
\* a while loop that does not start the chunk
C11_Witness ==
    /\ Finished
    /\ \E n \in 1..Len(meta.stmts) :
          meta.stmts[n].kind = "While" /\ meta.stmts[n].start > 0
    /\ \E i \in JumpsAt(pending.code) :
          pending.code[i + 1] = OpJumpIfFalse /\ OperandU32(pending.code, i) > i + 5

\* the instructions whose operand byte is a constant index
ConstantOps == {OpConstant, OpDefineGlobal, OpGetGlobal, OpSetGlobal}

\* C12: in a compiled chunk every Constant, DefineGlobal, GetGlobal and
\* SetGlobal instruction has an operand byte that is below the number of
\* constants and is the index get_constant returned for it, and the
\* constant table holds no entry beyond index 255.
C12_ConstantOperands ==
    Finished =>
        /\ Len(pending.constants) <= U8_MAX + 1
        /\ \A i \in InstrStarts(pending.code, 0) :
              pending.code[i + 1] \in ConstantOps =>
                  /\ pending.code[i + 2] < Len(pending.constants)
                  /\ <<i, pending.code[i + 2]>> \in meta.uses

\* The operand of C12 is as claimed in every chunk of at most 256 constants.
C12_ConstantOperandsUpTo256 ==
    Len(pending.constants) <= U8_MAX + 1 => C12_ConstantOperands

(***************************************************************************)
(* Claims about globals                                                    *)
(***************************************************************************)
\* the names the programs give to globals
GlobalNames == {"a", "b", "d", "i", "o", "u", "x"}

\* what GetGlobal of the name n finds
Global(n) == HashTable_get(globals, AnkokuString_new(n))

\* the instruction at ip is op on the name n and has the value it pops or
\* peeks
OnGlobal(op, n) ==
    /\ At(op) /\ HasConstant /\ IsString(heap, ReadConstant) /\ GlobalName = n
    /\ op = OpGetGlobal \/ Depth >= 1
Bound(n) == Global(n) \notin {Missing, Hang}

\* no object has been freed: no instruction reads through a dangling
\* reference
NoneFreed == \A a \in 1..Len(heap) : ~heap[a].freed

\* what a step does to the name n, as C13 has it
BindingStep(n) ==
    /\ OnGlobal(OpDefineGlobal, n) => Global(n)' = Peek(0)
    /\ OnGlobal(OpSetGlobal, n) /\ Bound(n)
          => Global(n)' = Peek(0) /\ Len(stack') = Len(stack)
    /\ OnGlobal(OpGetGlobal, n) /\ Bound(n) => stack' = Append(stack, Global(n))
    /\ Bound(n) /\ ~OnGlobal(OpDefineGlobal, n) /\ ~OnGlobal(OpSetGlobal, n)
          => Global(n)' = Global(n)

\* C13: DefineGlobal of a name binds it to the popped value, SetGlobal of
\* a bound name binds it to the top of the stack and leaves the depth as it
\* was, GetGlobal of a bound name pushes what it is bound to, and no other
\* step changes what a bound name is bound to.
C13_GlobalBindings ==
    [][NoneFreed => \A n \in GlobalNames : BindingStep(n)]_vars

\* the names of the globals of the compiled program
NamesOf(p) ==
    {n \in GlobalNames :
        \E i \in 1..Len(p.constants) :
            IsString(heap, p.constants[i]) /\ heap[p.constants[i].v].str.bytes = n}

\* The bindings of C13 are as claimed in every run of a program whose
\* global names have pairwise distinct hashes.
C13_GlobalBindingsOnDistinctHashes ==
    [][NoneFreed /\ DistinctHashes(NamesOf(pending))
          => \A n \in GlobalNames : BindingStep(n)]_vars

\* what SetGlobal of the name n does when no DefineGlobal has bound n, as
\* C14 has it
SetUndefinedStep(n) ==
    OnGlobal(OpSetGlobal, n) /\ n \notin defined =>
        /\ err' = "UndefinedVariable"
        /\ Global(n)' = Missing
        /\ \A m \in GlobalNames \ {n} : Global(m)' = Global(m)

\* C14: SetGlobal of a name no DefineGlobal has bound detects the undefined
\* variable and leaves the name unbound and every other name bound to what
\* it was bound to.
C14_SetUndefinedGlobal ==
    [][NoneFreed => \A n \in GlobalNames : SetUndefinedStep(n)]_vars

\* SetGlobal of an unbound name is as C14 says in every run of a program
\* whose global names have pairwise distinct hashes.
C14_SetUndefinedOnDistinctHashes ==
    [][NoneFreed /\ DistinctHashes(NamesOf(pending))
          => \A n \in GlobalNames : SetUndefinedStep(n)]_vars

(***************************************************************************)
(* Claims about collection inside alloc                                    *)
(***************************************************************************)
\* C15: a step that allocates (NewObject, a string concatenation, the
\* strings of a compilation), in a build that collects after every
\* allocation as in one that does not, leaves every object it allocated in
\* the objects list and not freed, so the reference alloc returned refers
\* to a live object.
C15_AllocatedStaysListed ==
    [][\A a \in (Len(heap) + 1)..Len(heap') :
          Listed(objects', a) /\ ~heap'[a].freed]_vars

\* The allocated object stays listed in every run of the default build.
C15_AllocatedStaysListedByDefault ==
    [][~slow => \A a \in (Len(heap) + 1)..Len(heap') :
                   Listed(objects', a) /\ ~heap'[a].freed]_vars

(***************************************************************************)
(* Claims about the operators                                              *)
(***************************************************************************)
\* the Real that op makes of the numbers a and b
Arith(op, a, b) ==
    CASE op = OpAdd -> a + b
      [] op = OpSub -> a - b
      [] op = OpMul -> a * b
      [] op = OpDiv -> RealDiv(a, b)

\* the instruction at ip is op and the operands it pops are l below r
OnOperands(op, l, r) == At(op) /\ Depth >= 2 /\ Peek(1).t = l /\ Peek(0).t = r

\* C17: Add, Sub, Mul and Div on operands that are each a Real or a Bool
\* replace them by the Real computed from the operands, a Bool counting as
\* 0 or 1, and the run goes on.
C17_ArithmeticCoercesBools ==
    [][\A op \in {OpAdd, OpSub, OpMul, OpDiv} : \A l, r \in {"Real", "Bool"} :
          OnOperands(op, l, r) =>
              /\ stack' = Append(Popped(2), Real(Arith(op, Peek(1).v, Peek(0).v)))
              /\ status' = "running"]_vars

\* With a Real on the left the arithmetic of C17 is as claimed, whether
\* the right operand is a Real or a Bool.
C17_RealLeftCoercesBool ==
    [][\A op \in {OpAdd, OpSub, OpMul, OpDiv} : \A r \in {"Real", "Bool"} :
          OnOperands(op, "Real", r) =>
              /\ stack' = Append(Popped(2), Real(Arith(op, Peek(1).v, Peek(0).v)))
              /\ status' = "running"]_vars

\* C18: a Greater (Less) instruction on two Reals replaces them by the
\* Bool that says whether the lower one is greater (less) than the top
\* one, and the run goes on.
C18_ComparisonsExecute ==
    [][\A op \in {OpGreater, OpLess} :
          OnOperands(op, "Real", "Real") =>
              /\ stack' = Append(Popped(2),
                                 Bool(IF op = OpGreater THEN Peek(1).v > Peek(0).v
                                      ELSE Peek(1).v < Peek(0).v))
              /\ ip' = ip + 1
              /\ status' = "running"]_vars

\* a reference to a String object that has not been dropped
LiveString(v) == IsString(heap, v) /\ ~heap[v.v].freed

\* C19: Add on a String below a Bool or a String allocates one String
\* object, whose bytes are those of the left operand followed by true /
\* false for a Bool and by the bytes of a String, replaces the operands on
\* the stack by a reference to it, and changes no other object.
C19_StringConcatenation ==
    [][At(OpAdd) /\ Depth >= 2 /\ LiveString(Peek(1))
            /\ (Peek(0).t = "Bool" \/ LiveString(Peek(0)))
          => /\ Len(heap') = Len(heap) + 1
             /\ heap'[Len(heap')].kind = "String"
             /\ ~heap'[Len(heap')].freed
             /\ heap'[Len(heap')].str.bytes =
                    heap[Peek(1).v].str.bytes \o
                        (IF Peek(0).t = "Bool" THEN (IF Peek(0).v = 1 THEN "true" ELSE "false")
                         ELSE heap[Peek(0).v].str.bytes)
             /\ stack' = Append(Popped(2), ObjRef(Len(heap')))
             /\ \A a \in 1..Len(heap) : heap'[a] = heap[a]]_vars

\* "a" + "b" + "c" and "a" + true have been evaluated and printed: abc,
\* then atrue
C19_Witness ==
    /\ Len(out) >= 2 /\ out[1].s = "abc" /\ out[2].s = "atrue"
    /\ NoneFreed

(***************************************************************************)
(* Claims about the front end                                              *)
(***************************************************************************)
\* Parser.current after one round of the loop of Stmt::parse begun at cur
Round(cur) == resume(declaration(cur))
\* a round of the loop has recorded an error
ErrorRecorded == fstatus = "parsing" /\ Len(errors') > Len(errors)

\* C16: after each error Stmt::parse records, synchronize followed by the
\* resumed parse consumes at least one token, or EOF has been reached; so
\* the loop ends.
C16_RecoveryConsumes ==
    [][ErrorRecorded =>
          Parser_at_end(parser'.current) \/ Round(parser'.current) > parser'.current]_vars

\* The rounds that do not consume are those begun right after a semicolon
\* or at a keyword synchronize stops at and no statement of the parser
\* begins with: the property holds of every other recovery.
Unconsumed == StatementStart \ {"Var", "Print"}
C16_RecoveryConsumesElsewhere ==
    [][(/\ ErrorRecorded
        /\ Parser_peek(parser'.current).kind \notin Unconsumed
        /\ (parser'.current = 0 \/ Parser_prev(parser'.current).kind # "Semicolon"))
         => Parser_at_end(parser'.current) \/ Round(parser'.current) > parser'.current]_vars

\* the tokens of a kind
TokensOf(kind) == {tokens[i] : i \in {j \in 1..Len(tokens) : tokens[j].kind = kind}}
\* the characters strictly inside the first and the last of a token
Inside(t) == Join(SubSeq(source, t.start + 2, t.start + t.length - 1))
\* the strings the compilation of the parsed statements allocates
CompiledStrings ==
    {Compiler_compile(stmts, 0).allocs[i] : i \in 1..Len(Compiler_compile(stmts, 0).allocs)}

\* C20: the string constant compiled for a String token holds the text
\* strictly inside its quotes: every string compiled from a source parsed
\* without error is the inside of a String token or an identifier.
C20_LiteralWithoutQuotes ==
    (fstatus = "parsed" /\ errors = << >>) =>
        CompiledStrings \subseteq
            {Inside(t) : t \in TokensOf("String")} \cup {TokenText(t) : t \in TokensOf("Identifier")}

\* The quotes are the whole difference: the strings compiled are the full
\* texts of the String tokens and of the identifiers.
C20_LiteralIsTokenText ==
    (fstatus = "parsed" /\ errors = << >>) =>
        CompiledStrings \subseteq
            {TokenText(t) : t \in TokensOf("String") \cup TokensOf("Identifier")}

(***************************************************************************)
(* Claims about local variables                                            *)
(***************************************************************************)
\* Lexical scoping, defined on the syntax tree: sc.env is the stack of open
\* blocks, each the declarations made directly in it; declarations are
\* numbered in program order (sc.names[id] is the name of declaration id),
\* sc.refs lists, in the order the references are compiled, the
\* declaration each reference to a local denotes.  sc.slots[id] is the
\* number of locals alive when declaration id is made.  sc.error is
\* "redeclared" once a block declares a name twice and "too many" once a
\* local is declared while LOCALS_MAX are alive; the walk stops there.
LOCALS_MAX == 256
NoScopes == [env |-> << >>, names |-> << >>, slots |-> << >>, refs |-> << >>, error |-> ""]

RECURSIVE Alive(_)
Alive(env) == IF env = << >> THEN 0 ELSE Len(env[Len(env)]) + Alive(SubSeq(env, 1, Len(env) - 1))

\* the declaration name denotes in the innermost block that has one, 0 if none
RECURSIVE Denotes(_, _)
Denotes(env, name) ==
    IF env = << >> THEN 0
    ELSE LET top == env[Len(env)]
             hits == {i \in 1..Len(top) : top[i].name = name}
         IN  IF hits # {} THEN top[CHOOSE i \in hits : TRUE].id
             ELSE Denotes(SubSeq(env, 1, Len(env) - 1), name)

Refer(sc, name) ==
    IF sc.error # "" \/ Denotes(sc.env, name) = 0 THEN sc
    ELSE [sc EXCEPT !.refs = Append(@, Denotes(sc.env, name))]

Declare(sc, name) ==
    IF sc.error # "" \/ sc.env = << >> THEN sc
    ELSE IF \E i \in 1..Len(sc.env[Len(sc.env)]) : sc.env[Len(sc.env)][i].name = name
    THEN [sc EXCEPT !.error = "redeclared"]
    ELSE IF Alive(sc.env) >= LOCALS_MAX THEN [sc EXCEPT !.error = "too many"]
    ELSE [sc EXCEPT !.names = Append(@, name),
                    !.slots = Append(@, Alive(sc.env)),
                    !.env[Len(sc.env)] = Append(@, [name |-> name, id |-> Len(sc.names) + 1])]

Open(sc) == [sc EXCEPT !.env = Append(@, << >>)]
Close(sc) == IF sc.error # "" THEN sc ELSE [sc EXCEPT !.env = SubSeq(@, 1, Len(@) - 1)]

RECURSIVE ScopeExpr(_, _)
RECURSIVE ScopeFields(_, _, _)
RECURSIVE ScopeStmt(_, _)
RECURSIVE ScopeBlock(_, _, _, _)
ScopeFields(sc, fields, i) ==
    IF i > Len(fields) THEN sc ELSE ScopeFields(ScopeExpr(sc, fields[i][2]), fields, i + 1)
ScopeExpr(sc, node) ==
    IF sc.error # "" THEN sc
    ELSE CASE node.k \in {"Add", "Subtract", "Multiply", "Divide", "Greater", "Less", "And",
                          "Or"} ->
                  ScopeExpr(ScopeExpr(sc, node.l), node.r)
           [] node.k \in {"Negate", "Not", "Grouping"} -> ScopeExpr(sc, node.i)
           [] node.k = "Object" -> ScopeFields(sc, node.fields, 1)
           [] node.k = "Var" -> Refer(sc, node.name)
           [] node.k = "Assign" -> Refer(ScopeExpr(sc, node.e), node.name)
           [] OTHER -> sc
ScopeBlock(sc, body, i, j) ==
    IF i > j \/ sc.error # "" THEN sc
    ELSE IF i = j THEN ScopeStmt(sc, body[i])
    ELSE ScopeBlock(ScopeBlock(sc, body, i, (i + j) \div 2), body, (i + j) \div 2 + 1, j)
ScopeStmt(sc, stmt) ==
    IF sc.error # "" THEN sc
    ELSE CASE stmt.k \in {"Expr", "Print"} -> ScopeExpr(sc, stmt.e)
           [] stmt.k = "Var" -> Declare(ScopeExpr(sc, stmt.e), stmt.name)
           [] stmt.k = "Block" -> Close(ScopeBlock(Open(sc), stmt.body, 1, Len(stmt.body)))
           [] stmt.k = "If" ->
                  ScopeStmt(ScopeStmt(ScopeExpr(sc, stmt.c), stmt.body), stmt.else_body)
           [] stmt.k = "While" -> ScopeStmt(ScopeExpr(sc, stmt.c), stmt.body)
           [] OTHER -> sc
Scoping(body) == ScopeBlock(NoScopes, body, 1, Len(body))

\* Compiler::compile has returned or panicked, nothing has run yet
CompileEnded == prog.src = "ast" /\ status \in {"compiled", "panic"} /\ chunk.code = << >>
\* the panic that ended the compilation of the program, "" if none did
CompilePanic == Compiler_compile(prog.stmts, 0).panic
\* the declarations the compiled references resolve to, in the order of
\* their offsets, each by its number in the order of the declarations
RefAt(i) == CHOOSE r \in meta.refs : Cardinality({q \in meta.refs : q[1] < r[1]}) = i - 1
DeclNumber(to) == Cardinality({d \in meta.decls : d[2] <= to})
Resolved == [i \in 1..Cardinality(meta.refs) |-> DeclNumber(RefAt(i)[2])]

\* C21: a local declared twice directly in one block is a compile error;
\* a declaration in a nested block is accepted and shadows the outer local
\* of its name until that block ends: every reference compiles to the
\* declaration lexical scoping gives it.
C21_LocalScoping ==
    CompileEnded =>
        /\ Scoping(prog.stmts).error = "redeclared" <=> CompilePanic = "already variable in this scope"
        /\ status = "compiled" => Resolved = Scoping(prog.stmts).refs

\* a compiled program in which a reference denotes the outer declaration
\* of a name after a reference to an inner declaration of the same name
C21_Witness ==
    /\ CompileEnded /\ status = "compiled"
    /\ \E i, j \in 1..Len(Resolved) :
           /\ i < j /\ Resolved[j] < Resolved[i]
           /\ Scoping(prog.stmts).names[Resolved[i]] = Scoping(prog.stmts).names[Resolved[j]]

\* the operand byte of the i-th compiled reference to a local
SlotOperand(i) == pending.code[RefAt(i)[1] + 2]

\* C22: at most 256 locals are alive at once: a declaration made while
\* fewer are alive succeeds, and its slot, the number of locals alive
\* before it (0..255), is the operand of every reference to it; a
\* declaration made while 256 are alive is a compile error.
C22_LocalsLimit ==
    CompileEnded =>
        /\ Scoping(prog.stmts).error = "too many" <=> CompilePanic = "too many locals in function"
        /\ \A i \in 1..Len(Resolved) :
               /\ SlotOperand(i) = Scoping(prog.stmts).slots[Resolved[i]]
               /\ SlotOperand(i) \in 0..LOCALS_MAX - 1

\* a program with 256 locals alive has compiled and refers to the 256th
C22_Witness ==
    /\ CompileEnded /\ status = "compiled"
    /\ Cardinality(meta.decls) = LOCALS_MAX
    /\ \E i \in 1..Len(Resolved) : Resolved[i] = LOCALS_MAX /\ SlotOperand(i) = LOCALS_MAX - 1


(***************************************************************************)
(* Claims about runs                                                       *)
(***************************************************************************)
\* the state is one of VM::new(), Compiler::compile and interpret alone:
\* the host has not called collect() in between
FreshRun == Running /\ ~collected
\* an instruction is about to leave one of several outcomes: it reads an
\* object that was dropped, or it drops one a second time
SeveralOutcomes == ENABLED ExecUseAfterFree \/ ENABLED SweepDoubleDrop

\* C23: interpreting one chunk on two freshly created VMs gives the same
\* printed values, the same final stack and globals and the same
\* InterpretResult: the two runs start in the same state, so they agree when
\* every instruction of a run leaves one outcome only.
C23_SameRun == FreshRun => ~SeveralOutcomes
\* the same for the default build, where alloc does not collect
C23_SameRunByDefault == ~slow => C23_SameRun


(***************************************************************************)
(* Claims about the tokenizer                                              *)
(***************************************************************************)
\* the iterator has yielded its last item
Ended == fstatus # "tokenizing"
EndedByEOF == tokens # << >> /\ tokens[Len(tokens)].kind = "EOF"
\* the last item was an Err, which main unwrapped
EndedByErr == fstatus = "panic" /\ ~EndedByEOF
\* the call of next() did not return: the tokenizer panicked
NextPanicked == Ended /\ ~tokenizer.done

\* C24: the items the iterator yields are finitely many and end with one
\* EOF token or with one error, after which done is set and next() yields
\* None; the empty source yields the EOF token alone.
C24_OneEnd ==
    /\ Len(tokens) <= Len(source) + 1
    /\ \A i \in 1..Len(tokens) : tokens[i].kind = "EOF" => i = Len(tokens) /\ Ended
    /\ ~Ended => ~tokenizer.done
    /\ Ended => tokenizer.done /\ (EndedByEOF \/ EndedByErr)
    /\ Ended /\ source = << >> => tokens = <<[kind |-> "EOF", start |-> 0, length |-> 0, line |-> 1]>>
\* the same when no call of next() panics
C24_OneEndIfReturns == NextPanicked \/ C24_OneEnd


\* C25: every token lies inside the source (start + length is at most its
\* length), advance() never reads the source at or beyond its length, that
\* is, current never exceeds the length, and the lines of successive tokens
\* never decrease.
C25_InBounds ==
    /\ \A i \in 1..Len(tokens) : tokens[i].start + tokens[i].length <= Len(source)
    /\ tokenizer.current <= Len(source)
    /\ \A i, j \in 1..Len(tokens) : i < j => tokens[i].line <= tokens[j].line
\* the same when no call of next() panics
C25_InBoundsIfReturns == NextPanicked \/ C25_InBounds


(***************************************************************************)
(* Claims about coercions                                                  *)
(***************************************************************************)
\* Add is about to call rhs.coerce_str(): its left operand is a String
CallsCoerceStr == At(OpAdd) /\ Depth >= 2 /\ IsString(heap, Peek(1))
\* add, sub, mul or div is about to call rhs.coerce_real() on a Bool or a
\* Real: its left operand is a Real
CallsCoerceReal ==
    /\ Running
    /\ Instr \in {OpAdd, OpSub, OpMul, OpDiv}
    /\ Depth >= 2
    /\ Peek(1).t = "Real"
    /\ Peek(0).t \in {"Bool", "Real"}

\* C26: coerce_str returns for every Value (Bool, Null, Real, a reference
\* to a String or to a table) and coerce_real for every Bool and Real: the
\* instruction that calls them does not abort the execution.
C26_CoercionsReturn == [][CallsCoerceStr \/ CallsCoerceReal => status' # "panic"]_vars
\* the same without Null and the tables as arguments of coerce_str
C26_CoercionsReturnOnScalars ==
    [][\/ CallsCoerceStr /\ (Peek(0).t \in {"Bool", "Real"} \/ IsString(heap, Peek(0)))
       \/ CallsCoerceReal
       => status' # "panic"]_vars


(***************************************************************************)
(* Claims about expressions                                                *)
(***************************************************************************)
\* Display of Expr (src/src/parser/expr.rs 48-68) for numbers, binary and
\* unary operations and groupings
RECURSIVE Display(_)
Display(e) ==
    CASE e.k = "Real" -> ToString(e.n)
      [] e.k = "Add" -> "(+ " \o Display(e.l) \o " " \o Display(e.r) \o ")"
      [] e.k = "Subtract" -> "(- " \o Display(e.l) \o " " \o Display(e.r) \o ")"
      [] e.k = "Multiply" -> "(* " \o Display(e.l) \o " " \o Display(e.r) \o ")"
      [] e.k = "Divide" -> "(/ " \o Display(e.l) \o " " \o Display(e.r) \o ")"
      [] e.k = "Negate" -> "(- " \o Display(e.i) \o ")"
      [] e.k = "Not" -> "(! " \o Display(e.i) \o ")"
      [] e.k = "Grouping" -> Display(e.i)
      [] OTHER -> "?"
\* the grouping the claim states for 1 op1 2 op2 3
Tighter(op) == op \in {"*", "/"}
NodeOf(op) ==
    CASE op = "+" -> "Add" [] op = "-" -> "Subtract" [] op = "*" -> "Multiply" [] op = "/" -> "Divide"
Grouped(op1, op2) ==
    IF Tighter(op2) /\ ~Tighter(op1)
    THEN EBin(NodeOf(op1), EReal(1), EBin(NodeOf(op2), EReal(2), EReal(3)))
    ELSE EBin(NodeOf(op2), EBin(NodeOf(op1), EReal(1), EReal(2)), EReal(3))
\* Stmt::parse returned the one expression statement of the source
ParsedOne == fstatus = "parsed" /\ errors = << >> /\ Len(stmts) = 1 /\ stmts[1].k = "Expr"


\* C27: * and / bind tighter than + and -, binary operators of one
\* precedence group to the left, and parentheses override both: every chain
\* 1 op1 2 op2 3 parses to the tree that groups 2 with the tighter operator,
\* or with op1 when neither is tighter, and (1 + 1) - (2 / (3 * 2)) parses
\* to the tree displayed as (- (+ 1 1) (/ 2 (* 3 2))).
C27_Precedence ==
    /\ source \in ChainSources \cup {BinopsSource} => fstatus # "panic"
    /\ source \in ChainSources \cup {BinopsSource} /\ fstatus = "parsed" => ParsedOne
    /\ \A op1, op2 \in BinaryOps :
           source = ChainSource(op1, op2) /\ ParsedOne => stmts[1].e = Grouped(op1, op2)
    /\ source = BinopsSource /\ ParsedOne => Display(stmts[1].e) = "(- (+ 1 1) (/ 2 (* 3 2)))"
C27_Witness ==
    /\ ParsedOne
    /\ source = ChainSource("-", "-")
    /\ stmts[1].e = EBin("Subtract", EBin("Subtract", EReal(1), EReal(2)), EReal(3))


\* the kinds primary() and unary() accept as the first token of an expression
ExpressionStart ==
    {"Identifier", "False", "True", "Null", "Number", "String", "LParen", "LBrace", "Bang", "Minus"}
\* from cur, past the tokens after which unary() is called again
RECURSIVE PrefixEnd(_)
PrefixEnd(cur) == IF Parser_check(cur, {"LParen", "Bang", "Minus"}) THEN PrefixEnd(cur + 1) ELSE cur
\* the token at which the statement at Parser.current needs an expression
\* after `print` and any opening parentheses and unary operators
NeedsAt == PrefixEnd(IF Parser_check(parser.current, {"Print"}) THEN parser.current + 1
                     ELSE parser.current)
NeedsExpression ==
    /\ fstatus = "parsing"
    /\ ~Parser_at_end(parser.current)
    /\ ~Parser_check(parser.current, {"Var"})
    /\ Parser_peek(NeedsAt).kind \notin ExpressionStart

\* C28: when the parser needs an expression and the next token cannot start
\* one, declaration() returns Err(ExpectedExpression) at that token and
\* Stmt::parse records the error and no statement; for the source `(` the
\* token is the EOF after the parenthesis.
C28_ExpectedExpression ==
    [][NeedsExpression =>
           /\ ~declaration(parser.current).ok
           /\ declaration(parser.current).cur = NeedsAt
           /\ errors' = Append(errors, "ExpectedExpression")
           /\ stmts' = stmts]_vars
C28_Witness ==
    /\ source = <<"(">>
    /\ errors = <<"ExpectedExpression">>
    /\ stmts = << >>
    /\ parser.current = 1


(***************************************************************************)
(* Claims about collections                                                *)
(***************************************************************************)
\* the addresses on a list
ListSet(objs) == {objs[i] : i \in 1..Len(objs)}
\* collect() returned, and left the list with exactly the objects of S that
\* were on it, each once and unmarked, the others of the list being freed
CollectLeaves(S) ==
    /\ ListSet(objects') = ListSet(objects) \cap S
    /\ Cardinality(ListSet(objects')) = Len(objects')
    /\ \A a \in ListSet(objects') : ~heap'[a].marked /\ ~heap'[a].freed
    /\ \A a \in ListSet(objects) \ S : heap'[a].freed

\* C29: after collect() returns, every object of the list is unmarked and
\* the list holds exactly the objects that were reachable from the stack or
\* globals when the collection began, each once; the unreachable ones have
\* been unlinked and freed.
C29_ListIsReachable ==
    [][Collect /\ status' # "crash" => CollectLeaves(Reach(heap, Roots))]_vars
\* the same with the roots themselves in place of what is reachable from them
C29_ListIsRoots == [][Collect /\ status' # "crash" => CollectLeaves(Roots)]_vars


\* the reference a Constant instruction copies from the constant table
Fetched == IF Instr = OpConstant /\ HasConstant THEN ObjOf({ReadConstant}) ELSE {}
\* every reference the instruction at ip reads or follows is to an object
\* of the list
ReadsListed == \A a \in Touches \cup Fetched : InList(objects, a) /\ ~heap[a].freed

\* C30: whatever the order of Compiler::compile, collect() and interpret on
\* one VM, every heap reference an instruction reads from the constant
\* table, the stack or a global refers to an object that is still in the
\* objects list: no instruction dereferences a freed object.
C30_NoFreedRead == Running => ReadsListed
\* the same for the default build when the host has not called collect()
C30_NoFreedReadWithoutCollect == FreshRun /\ ~slow => ReadsListed


\* C31: collect() leaves the operand stack, the globals, ip and the chunk
\* as they were, and every object that survives holds what it held: only
\* its marked flag and its place in the list may differ.
C31_CollectFrame ==
    [][Collect =>
           /\ stack' = stack
           /\ globals' = globals
           /\ ip' = ip
           /\ chunk' = chunk
           /\ \A a \in ListSet(objects') :
                  /\ Contents(heap'[a]) = Contents(heap[a])
                  /\ heap'[a].freed = heap[a].freed]_vars
C31_Witness ==
    /\ collected
    /\ status = "Ok"
    /\ Len(objects) < Len(heap)
    /\ \E a \in ListSet(objects) : heap[a].kind = "Object" /\ heap[a].table.count > 0
    /\ globals.count > 0


(***************************************************************************)
(* Claims about the table's count and slots                                *)
(***************************************************************************)
\* the slots that hold a key
KeyedSlots(t) == {i \in 1..Len(t.entries) : t.entries[i].key # NoKey}

\* C32: count is the number of slots that hold a key plus the number of
\* tombstone slots; right after a growth, which drops the tombstones, it is
\* the number of keyed slots.
C32_CountIsOccupied ==
    table.count = Cardinality(KeyedSlots(table)) + Cardinality(Tombstones(table))
\* count is never below that number
C32_CountNotBelow ==
    table.count >= Cardinality(KeyedSlots(table)) + Cardinality(Tombstones(table))


\* no two slots of t hold keys with one hash
UniqueHashes(t) ==
    \A i, j \in KeyedSlots(t) : i # j => t.entries[i].key.hash # t.entries[j].key.hash
\* the n-th slot on the probe path of hash h in the entries g
PathSlot(g, h, n) == (h + n) % Len(g)
OnPath(g, h, n) == g[PathSlot(g, h, n) + 1]
\* the steps at which the path of h meets the key or an empty slot
PathEnds(g, h) ==
    {n \in 0..Len(g) - 1 : OnPath(g, h, n) = EmptyEntry
                              \/ (OnPath(g, h, n).key # NoKey /\ OnPath(g, h, n).key.hash = h)}
Least(S) == CHOOSE n \in S : \A m \in S : n <= m
\* the tombstones the path passes before step end
PathTombstones(g, h, end) ==
    {n \in 0..end - 1 : OnPath(g, h, n).key = NoKey /\ OnPath(g, h, n).value # Null}
\* the slot the claim gives a set of hash h whose path ends at step end:
\* that of the key when it is present, else the first tombstone of the
\* path, else the empty slot
SlotGiven(g, h, end, tombstones) ==
    IF OnPath(g, h, end).key # NoKey \/ tombstones = {}
    THEN PathSlot(g, h, end)
    ELSE PathSlot(g, h, Least(tombstones))
SlotEnding(g, h, end) == SlotGiven(g, h, end, PathTombstones(g, h, end))
SlotFound(g, h, ends) == IF ends = {} THEN Diverges ELSE SlotEnding(g, h, Least(ends))
SlotFor(g, h) == SlotFound(g, h, PathEnds(g, h))

\* what set(k, v) returned, against the entries g it probed with hash h
SetWrote(r, g, h, k, v) ==
    r.hang \/ /\ SlotFor(g, h) # Diverges
              /\ r.table.entries = [g EXCEPT ![SlotFor(g, h) + 1] =
                                       [key |-> AnkokuString_new(k), value |-> v]]

\* C33: no two slots ever hold keys of one hash: a set writes the slot of
\* the key when the key is present, also behind a tombstone, and otherwise
\* the first tombstone on the probe path, or the first empty slot when the
\* path has no tombstone; it writes no other slot.
C33_OneSlotPerHash ==
    /\ UniqueHashes(table)
    /\ ~hung =>
           \A k \in TableKeys, v \in TableValues :
               SetWrote(HashTable_set(table, AnkokuString_new(k), v), Grown(table),
                        hash_bytes(k), k, v)
\* a key one step down its probe path, behind a tombstone, after some set
\* has reused a tombstone
C33_Witness ==
    /\ treused
    /\ ~hung
    /\ \E i \in KeyedSlots(table) :
           /\ PathSlot(table.entries, table.entries[i].key.hash, 1) = i - 1
           /\ PathTombstones(table.entries, table.entries[i].key.hash, 1) # {}


(***************************************************************************)
(* Claims about branches and short circuits                                *)
(***************************************************************************)
\* the truth of a literal condition: Null and false are falsey, every other
\* value is truthy
TruthyLiteral(c) == ~(c.k = "Null" \/ (c.k = "Bool" /\ ~c.b))
Printed(n) == [t |-> "Real", n |-> n, s |-> ""]
\* if (c) print 1; else print 2;  and  if (c) print 1;
PrintingIfs ==
    {Ast(<<SIf(c, SPrint(EReal(1)), e)>>) : c \in Conds, e \in {SNone, SPrint(EReal(2))}}
\* what the if of such a program writes when it runs one branch, by c
OneBranch(st) ==
    IF TruthyLiteral(st.c) THEN <<Printed(1)>>
    ELSE IF st.else_body.k = "None" THEN << >>
    ELSE <<Printed(2)>>
IfRan == status = "Ok" /\ prog \in PrintingIfs

\* C34: a compiled if (cond) A else B runs exactly one of A and B, A when
\* cond is truthy and B when it is falsey (nothing without an else), and
\* pops the condition once on either path: the run of `if (c) print 1; else
\* print 2;` writes what the one branch writes and ends with the stack as
\* it began.
C34_IfRunsOneBranch == IfRan => out = OneBranch(prog.stmts[1]) /\ stack = << >>
\* the same for the conditions true and false
C34_IfRunsOneBranchOnBools == IfRan /\ prog.stmts[1].c.k = "Bool" => C34_IfRunsOneBranch


\* what println writes for a Real or Bool literal
PrintedLiteral(l) ==
    IF l.k = "Real" THEN Printed(l.n) ELSE [t |-> "Bool", n |-> IF l.b THEN 1 ELSE 0, s |-> ""]
\* the right operand x = 2 is evaluated: 2 is the value and x is 2
\* afterwards; or it is not: l is the value and x is still 0
RightValue == <<Printed(2), Printed(2)>>
LeftValue(l) == <<PrintedLiteral(l), Printed(0)>>
ShortRan == status = "Ok" /\ prog \in ShortPrograms
ShortLeft == prog.stmts[1].body[2].e.l
ShortOp == prog.stmts[1].body[2].e.k

\* C35: a && b leaves the value of a when a is falsey and otherwise that of
\* b, a || b the value of a when a is truthy and otherwise that of b; b is
\* evaluated in the second case only, and one value is left on every path:
\* the run of { var x = 0; print l && (x = 2); print x; } and of the same
\* with || writes that value and then x, and ends with the stack as it began.
C35_ShortCircuit ==
    ShortRan =>
        /\ out = IF TruthyLiteral(ShortLeft) = (ShortOp = "And") THEN RightValue
                 ELSE LeftValue(ShortLeft)
        /\ stack = << >>
\* the same for the left operands true and false
C35_ShortCircuitOnBools == ShortRan /\ ShortLeft.k = "Bool" => C35_ShortCircuit


(***************************************************************************)
(* Claims about blocks                                                     *)
(***************************************************************************)
\* the locals a statement declares in the block it stands in: a var, and
\* the vars that are direct branches of an if / while, which opens no scope
RECURSIVE Declares(_)
Declares(st) ==
    CASE st.k = "Var" -> 1
      [] st.k = "If" -> Declares(st.body) + Declares(st.else_body)
      [] st.k = "While" -> Declares(st.body)
      [] OTHER -> 0
\* the declarations directly in a block, one element for each
DeclSites(body) == UNION {{<<i, d>> : d \in 1..Declares(body[i])} : i \in 1..Len(body)}

\* the block statements of a syntax tree, in the order their compilation ends
RECURSIVE BlocksOf(_)
RECURSIVE BlocksRange(_, _, _)
BlocksRange(body, i, j) ==
    IF i > j THEN << >>
    ELSE IF i = j THEN BlocksOf(body[i])
    ELSE BlocksRange(body, i, (i + j) \div 2) \o BlocksRange(body, (i + j) \div 2 + 1, j)
BlocksIn(body) == BlocksRange(body, 1, Len(body))
BlocksOf(st) ==
    CASE st.k = "Block" -> BlocksIn(st.body) \o <<st>>
      [] st.k = "If" -> BlocksOf(st.body) \o BlocksOf(st.else_body)
      [] st.k = "While" -> BlocksOf(st.body)
      [] OTHER -> << >>
\* the records of the blocks among the statements compiled
BlockRecords == SelectSeq(meta.stmts, LAMBDA r : r.kind = "Block")

\* what leaving a block emitted and removed, for the blocks of a program
\* that compiled
BlockLeft ==
    status # "new" /\ status # "panic" /\ prog.src = "ast"
        => /\ Len(BlockRecords) = Len(BlocksIn(prog.stmts))
           /\ \A n \in 1..Len(BlockRecords) :
                 LET r == BlockRecords[n]
                     own == Cardinality(DeclSites(BlocksIn(prog.stmts)[n].body))
                 IN  /\ r.tail = [i \in 1..own |-> OpPop]
                     /\ Len(r.inner) = Len(r.before) + own
                     /\ SubSeq(r.inner, 1, Len(r.before)) = r.before
                     /\ r.after = r.before
\* a run that detected no error stands at the end of a block it entered
\* with the stack as deep as at the entry
BlockDepth ==
    \A n \in 1..Len(entryDepth) :
        (/\ Running /\ err = "none" /\ meta.stmts[n].kind = "Block"
         /\ ip = meta.stmts[n].end /\ entryDepth[n] # -1)
            => Depth = entryDepth[n]

\* C36: leaving a block emits one Pop for each local declared directly in
\* it and removes exactly those locals, the locals after the block being
\* the locals before it; and when a run comes to the end of a block, the
\* stack is as deep as it was when the block was entered.
C36_BlockBalanced == BlockLeft /\ BlockDepth

\* the same in every run of a program without such a branch
C36_BlockBalancedWithoutVarBranch ==
    ~HasVarBranch(prog) => C36_BlockBalanced


(***************************************************************************)
(* Claims about object literals                                            *)
(***************************************************************************)
FieldKeys(fields) == {fields[i][1] : i \in 1..Len(fields)}
\* the value of the last occurrence of key k in the literal
LastOf(fields, k) ==
    Real(fields[CHOOSE i \in 1..Len(fields) :
                    fields[i][1] = k /\ \A j \in i + 1..Len(fields) : fields[j][1] # k][2].n)
\* the run of print { .. }; print 1; has evaluated the literal
LiteralDone == Running /\ prog \in ObjectPrograms /\ out = << >> /\ Instr = OpPrint
\* one table more on the stack, allocated by the literal and alive, that
\* holds one entry for each key, with the value of its last occurrence
TableLeft(fields) ==
    /\ Depth = 1 /\ stack[1].t = "Obj"
    /\ stack[1] \notin {chunk.constants[i] : i \in 1..Len(chunk.constants)}
    /\ stack[1].v \in ListSet(objects)
    /\ ~heap[stack[1].v].freed /\ heap[stack[1].v].kind = "Object"
    /\ Cardinality(KeyedSlots(heap[stack[1].v].table)) = Cardinality(FieldKeys(fields))
    /\ Tombstones(heap[stack[1].v].table) = {}
    /\ \A k \in FieldKeys(fields) :
           /\ HashTable_get(heap[stack[1].v].table, AnkokuString_new(k)) = LastOf(fields, k)
           /\ \E i \in KeyedSlots(heap[stack[1].v].table) :
                  heap[stack[1].v].table.entries[i].key.bytes = k
\* ObjectSet pops the value and the key and leaves the table on top
ObjectSetKeeps ==
    ExecObjectSet /\ prog \in ObjectPrograms
        => /\ stack' = Popped(2)
           /\ IsTable(heap', Peek(2)) /\ ~heap'[Peek(2).v].freed

\* C37: evaluating an object literal leaves one new table on the stack that
\* maps each key to the value of its last occurrence, with a single entry
\* for a repeated key; each ObjectSet pops the value and the key string and
\* keeps the table on top of the stack.
C37_ObjectLiteral ==
    /\ [](LiteralDone => TableLeft(prog.stmts[1].e.fields))
    /\ [][ObjectSetKeeps]_vars

\* keys of different bytes have different hashes
ClashFree(fields) ==
    \A k1, k2 \in FieldKeys(fields) : k1 # k2 => hash_bytes(k1) # hash_bytes(k2)
\* the same in a default build without a collect() before the run, for
\* literals whose keys have different hashes
C37_ObjectLiteralByDefault ==
    /\ [](LiteralDone /\ ~slow /\ ~collected /\ ClashFree(prog.stmts[1].e.fields)
              => TableLeft(prog.stmts[1].e.fields))
    /\ [][~slow /\ ~collected => ObjectSetKeeps]_vars


(***************************************************************************)
(* Claims about literals                                                   *)
(***************************************************************************)
\* the constant c is the value of the literal l
LiteralValue(h, c, l) ==
    CASE l.k = "Real" -> c = Real(l.n)
      [] l.k = "Bool" -> c = Bool(l.b)
      [] l.k = "Null" -> c = Null
      [] l.k = "String" -> IsString(h, c) /\ h[c.v].str.bytes = l.s
\* print l; compiled to Constant k, with the value of l as constant k
LiteralCompiled ==
    prog \in LiteralPrograms /\ status # "new"
        => /\ status # "panic"
           /\ Len(pending.code) >= 2 /\ pending.code[1] = OpConstant
           /\ pending.code[2] < Len(pending.constants)
           /\ LiteralValue(heap, pending.constants[pending.code[2] + 1], prog.stmts[1].e)
\* var a; print a; compiled, and its run binds a to Null
BareVarBound ==
    prog = BareVar /\ status # "new"
        => /\ status # "panic"
           /\ status = "Ok" => /\ HashTable_get(globals, AnkokuString_new("a")) = Null
                               /\ out = <<Render(heap, Null)>>

\* C38: every literal expression compiles to a Constant instruction whose
\* constant is the literal's value, and a var declaration without an
\* initializer, which the parser gives a Null expression, compiles and
\* binds the name to Null.
C38_LiteralsCompile == LiteralCompiled /\ BareVarBound
\* the same for the literals other than null, in a default build without a
\* collect() before the run
C38_LiteralsCompileButNull ==
    prog \in LiteralPrograms /\ prog.stmts[1].e # ENull /\ ~slow /\ ~collected
        => LiteralCompiled


(***************************************************************************)
(* Claims about the = after a character                                    *)
(***************************************************************************)
\* the characters that form a token with a following =
EqualFirsts == {"!", "=", "<", ">", "+", "-"}
TokenKinds == [i \in 1..Len(tokens) |-> tokens[i].kind]
\* the token begins with c and has = as its second character
TakesEqual(t) == t.kind # "String" /\ t.length >= 2 /\ source[t.start + 2] = "="

\* C39: a = is the second character of a token only directly after !, =,
\* <, >, + or -, after any other character it starts a token of its own:
\* 1==2 gives Number, EqualEqual, Number, EOF and )= gives RParen, Equal.
C39_EqualAfterOperator ==
    /\ \A i \in 1..Len(tokens) :
           TakesEqual(tokens[i]) => source[tokens[i].start + 1] \in EqualFirsts
    /\ source = NumberEqualsNumber /\ fstatus # "tokenizing"
           => TokenKinds = <<"Number", "EqualEqual", "Number", "EOF">>
    /\ source = ParenEqual /\ fstatus # "tokenizing"
           => TokenKinds = <<"RParen", "Equal", "EOF">>
\* after !, =, <, >, + and - a following = is taken, and makes the token
\* the compound operator
C39_EqualAfterOperatorTaken ==
    \A i \in 1..Len(tokens) :
        (/\ tokens[i].start + 1 < Len(source)
         /\ source[tokens[i].start + 1] \in EqualFirsts /\ source[tokens[i].start + 2] = "=")
            => /\ tokens[i].length = 2
               /\ tokens[i].kind \in {"BangEqual", "EqualEqual", "LessEqual", "GreaterEqual",
                                      "PlusEqual", "MinusEqual"}


(***************************************************************************)
(* Claims about the line table                                             *)
(***************************************************************************)
\* the line of the byte written before byte i of the compiled chunk
PreviousLine(i) == IF i = 1 THEN 1 ELSE pending.lines[i - 1]
HasLines == prog.src = "ast" /\ status = "compiled"

\* C40: the line-table entry of every byte emitted while an expression is
\* compiled, the Constant and the operand of a literal included, is the line
\* of the token of that expression; the bytes emitted outside of
\* expressions, and only they, take the line of the byte written before.
C40_ExpressionLines ==
    HasLines =>
        /\ Len(pending.lines) = Len(pending.code)
        /\ \A i \in 1..Len(pending.code) :
               pending.lines[i] = IF meta.exp[i] # 0 THEN meta.exp[i] ELSE PreviousLine(i)
\* the same for the program print a; print -b; on two lines, which has no
\* literal
C40_ExpressionLinesOfNames == prog = TwoLinesOfNames => C40_ExpressionLines

====
